---- MODULE Spec2Model ----
(***************************************************************************)
(* Model of banan-stats. The traefik middleware: the tracking-cookie state *)
(* machine of ServeHTTP, the sqlite-backed disk queue (Enqueue, FetchBatch,*)
(* DeleteUpTo) and the worker's flush loop with its exponential backoff.   *)
(* The sidecar: the /ingest handler, the analyzer with its regular         *)
(* expressions, Store.Insert and the timeline query of the dashboard.      *)
(*                                                                         *)
(* Strings are sequences of chunks (one chunk is one or more characters),  *)
(* so that prefix tests, trimming and concatenation are computed; the      *)
(* strings the analyzer matches are sequences of single characters.        *)
(* Durations and instants are in milliseconds; the zero time.Time is 0.    *)
(***************************************************************************)
EXTENDS Integers, Sequences, FiniteSets, TLC

\* ------------------------------------------------------------------ bounds
\* request tasks of the model, and how many of them run in Spec
NumTasks == 3
ConcurrentTasks == 2
\* rows a reopened buffer file may already hold
MaxPrior == 2
\* buffer_max_events of the bounded configuration in Spec
MaxEvents == 1
\* batch_size
BatchSize == 2
\* buffer_max_events of the backpressure scenario (FairSpec)
ScenarioMaxEvents == 2
\* clock steps of one InitialBackoff each that Spec may take
MaxTicks == 2
\* clock steps of the drain specification
DrainTicks == 3

\* clock steps of the backoff specification
BackoffTicks == 52
\* process restarts on the same buffer file
MaxRestarts == 1
\* length of a cookie value sent by a client
MaxCookieLen == 2
\* the rows the stats table of the sidecar may reach
MaxRows == 3
\* the calls of Analyze on one line
MaxPasses == 2

\* ------------------------------------------------------- program constants
InitialBackoff == 500
MaxBackoff == 10000
StatusOK == 200
StatusUnauthorized == 401
StatusBadGateway == 502
ZeroTime == 0
StatusAccepted == 202
StatusBadRequest == 400
StatusInternalServerError == 500
\* db.SetMaxOpenConns(1)
MaxOpenConns == 1

Tasks == 1..NumTasks

\* ------------------------------------------------------------------ strings
Chars == {"?", "a", "b"}
EmptyString == << >>

HasPrefix(s, prefix) ==
    /\ Len(s) >= Len(prefix)
    /\ SubSeq(s, 1, Len(prefix)) = prefix

TrimPrefix(s, prefix) ==
    IF HasPrefix(s, prefix) THEN SubSeq(s, Len(prefix) + 1, Len(s)) ELSE s

HasSuffix(s, suffix) ==
    /\ Len(s) >= Len(suffix)
    /\ SubSeq(s, Len(s) - Len(suffix) + 1, Len(s)) = suffix

TrimSuffix(s, suffix) ==
    IF HasSuffix(s, suffix) THEN SubSeq(s, 1, Len(s) - Len(suffix)) ELSE s

UpperLetters == <<"A", "B", "C", "D", "E", "F", "G", "H", "I", "J", "K", "L", "M", "N", "O", "P", "Q", "R", "S", "T", "U", "V", "W", "X", "Y", "Z">>
LowerLetters == <<"a", "b", "c", "d", "e", "f", "g", "h", "i", "j", "k", "l", "m", "n", "o", "p", "q", "r", "s", "t", "u", "v", "w", "x", "y", "z">>

\* strings.ToLower, chunk by chunk
LowerChunk(c) ==
    CASE c = "TEXT/HTML" -> "text/html"
      [] c = "Application/RSS+XML" -> "application/rss+xml"
      [] \E k \in 1..Len(UpperLetters) : UpperLetters[k] = c ->
            LowerLetters[CHOOSE k \in 1..Len(UpperLetters) : UpperLetters[k] = c]
      [] OTHER -> c

ToLower(s) == [i \in 1..Len(s) |-> LowerChunk(s[i])]

StringsUpTo(n) == UNION {[1..k -> Chars] : k \in 0..n}

\* newUUID: 36 hexadecimal digits and dashes, so never a "?"
UUIDs == {<<"a">>, <<"b">>}

\* ------------------------------------------------------------ configuration
CookieName == "stats_id"
DashboardPath == <<"/stats">>
DashboardToken == <<"secret">>

\* ------------------------------------------------------------- cookie state
ZeroCookieState ==
    [setCookie |-> EmptyString, uniq |-> EmptyString, secondVisit |-> FALSE,
     needsSet |-> FALSE, value |-> EmptyString]

NoCookie == [present |-> FALSE, value |-> EmptyString]
Cookie(v) == [present |-> TRUE, value |-> v]

mintCookieUnmarked(userID) ==
    [ZeroCookieState EXCEPT !.setCookie = userID, !.needsSet = TRUE, !.value = userID]

\* readCookie, no cookie or an empty value: userID is what newUUID returns
mintCookie(userID) ==
    [ZeroCookieState EXCEPT !.setCookie = userID, !.needsSet = TRUE,
                            !.value = <<"?">> \o userID]

confirmCookieUnstripped(value) ==
    [ZeroCookieState EXCEPT !.uniq = value, !.secondVisit = TRUE,
                            !.needsSet = TRUE, !.value = value]

\* readCookie, a value that begins with "?"
confirmCookie(value) ==
    LET userID == TrimPrefix(value, <<"?">>)
    IN [ZeroCookieState EXCEPT !.uniq = userID, !.secondVisit = TRUE,
                               !.needsSet = TRUE, !.value = userID]

knownCookieRefreshed(value) ==
    [ZeroCookieState EXCEPT !.uniq = value, !.needsSet = TRUE, !.value = value]

\* readCookie, any other value
knownCookie(value) == [ZeroCookieState EXCEPT !.uniq = value]

readCookie(cookie, userID) ==
    IF ~cookie.present \/ cookie.value = EmptyString THEN mintCookie(userID)
    ELSE IF HasPrefix(cookie.value, <<"?">>) THEN confirmCookie(cookie.value)
    ELSE knownCookie(cookie.value)

\* maybeSetCookie: the Set-Cookie entries of the response headers
maybeSetCookie(hdrs, state) ==
    IF ~state.needsSet THEN hdrs
    ELSE Append(hdrs, [name |-> CookieName, value |-> state.value])

\* a test for the dashboard path alone
isDashboardRequestExact(path) == path = DashboardPath

isDashboardRequest(path) ==
    IF DashboardPath = EmptyString THEN FALSE
    ELSE \/ path = DashboardPath
         \/ path = TrimSuffix(DashboardPath, <<"/">>) \o <<"/favicon.ico">>

isLoggableCaseSensitive(status, contentType) ==
    /\ status = StatusOK
    /\ \/ HasPrefix(contentType, <<"text/html">>)
       \/ HasPrefix(contentType, <<"application/atom+xml">>)
       \/ HasPrefix(contentType, <<"application/rss+xml">>)

isLoggable(status, contentType) ==
    IF status # StatusOK THEN FALSE
    ELSE LET ct == ToLower(contentType)
         IN \/ HasPrefix(ct, <<"text/html">>)
            \/ HasPrefix(ct, <<"application/atom+xml">>)
            \/ HasPrefix(ct, <<"application/rss+xml">>)

\* the event fields that enqueueEvent takes from the cookie state
ZeroEvent == [setCookie |-> EmptyString, uniq |-> EmptyString, secondVisit |-> FALSE]

newEvent(state) ==
    [setCookie |-> state.setCookie, uniq |-> state.uniq,
     secondVisit |-> state.secondVisit]

\* -------------------------------------------------------------------- state
VARIABLES
    \* the buffer file: rows of the events table and the AUTOINCREMENT sequence
    table, seq,
    \* diskQueue: count, notify (messages in the buffered channel), maxEvents
    count, notify, maxEvents,
    \* TRUE while an open result set keeps the pool's only connection
    connHeld,
    \* request tasks: position, request, cookieState, Set-Cookie headers,
    \* response recorder, event under construction
    pc, req, cookieState, headers, rec, evt,
    \* the response as the client gets it: the Set-Cookie headers that were in
    \* the header map when the response header was written, the body that the
    \* middleware itself wrote, and the requests proxyDashboard sent to the
    \* sidecar
    wire, body, forwarded,
    \* the sidecar: the rows of the stats table in the order of their
    \* insertion; and history: the last request /ingest handled and the last
    \* call of StreamEvents
    stats, lastCall, lastStream,
    \* worker: position, batch and lastID of flush, rows affected by the delete
    wpc, batch, affected,
    \* statsMiddleware.backoff and .nextAttempt, and the wall clock
    backoff, nextAttempt, now,
    \* history: ids of the batches StreamEvents returned nil for, the largest
    \* lastID a DeleteUpTo removed rows up to, the batch of the last failed
    \* StreamEvents, the batch streamed but not deleted when the process stopped,
    \* the failed flushes since the worker started or last found the queue
    \* empty and the times of these failures, the restarts so far
    streamed, deletedUpTo, failedBatch, crashedBatch, failures, failedAt, restarts,
    \* the analyzer: the event a line is built from, the line, and the calls
    \* of Analyze it has gone through
    inputEvent, analyzed, passes,
    \* the dashboard: the last response of Render
    dash,
    \* shutdown: m.stop is closed, the context passed to New is cancelled, the
    \* handle of the buffer file is closed
    stop, ctxDone, closed

queueVars == <<table, seq, count, notify, maxEvents, connHeld>>
taskVars == <<pc, req, cookieState, headers, rec, evt>>
respVars == <<wire, body, forwarded>>
sidecarVars == <<stats, lastCall, lastStream>>
workerVars == <<wpc, batch, affected, backoff, nextAttempt>>
histVars == <<streamed, deletedUpTo, failedBatch, crashedBatch, failures, failedAt, restarts>>
analyzerVars == <<inputEvent, analyzed, passes>>
dashboardVars == <<dash>>
lifeVars == <<stop, ctxDone, closed>>
vars ==
    <<queueVars, taskVars, respVars, sidecarVars, workerVars, histVars, analyzerVars,
      dashboardVars, lifeVars, now>>

\* ------------------------------------------------------------ queue helpers
Min(a, b) == IF a < b THEN a ELSE b
Max(a, b) == IF a > b THEN a ELSE b

RowIds(rows) == {row.id : row \in rows}

MaxId(rows) == IF rows = {} THEN 0 ELSE CHOOSE i \in RowIds(rows) : \A j \in RowIds(rows) : j <= i

RowidReuse(rows, sequence) == MaxId(rows) + 1

\* id INTEGER PRIMARY KEY AUTOINCREMENT: one more than the largest id ever used
AutoIncrement(rows, sequence) == Max(sequence, MaxId(rows)) + 1

CountNothing(rows) == 0

\* SELECT COUNT(1) FROM events
CountRows(rows) == Cardinality(rows)

RECURSIVE OrderById(_)
OrderById(rows) ==
    IF rows = {} THEN << >>
    ELSE LET first == CHOOSE row \in rows : \A other \in rows : row.id <= other.id
         IN <<first>> \o OrderById(rows \ {first})

\* the newest rows instead of the oldest
SelectNewest(rows, limit) ==
    LET ordered == OrderById(rows)
    IN SubSeq(ordered, Len(ordered) - Min(limit, Len(ordered)) + 1, Len(ordered))

\* SELECT id, payload FROM events ORDER BY id LIMIT ?
SelectBatch(rows, limit) ==
    LET ordered == OrderById(rows)
    IN SubSeq(ordered, 1, Min(limit, Len(ordered)))

DeleteAll(rows, lastID) == {}

\* DELETE FROM events WHERE id <= ?
DeleteWhere(rows, lastID) == {row \in rows : row.id > lastID}

FullOffByOne(cnt, maxEv) == maxEv > 0 /\ cnt > maxEv

\* the loop condition of Enqueue
Full(cnt, maxEv) == maxEv > 0 /\ cnt >= maxEv

DecrementNothing(cnt, n) == cnt

\* the count after DeleteUpTo has subtracted the rows affected
Decrement(cnt, n) == IF cnt - n < 0 THEN 0 ELSE cnt - n

NextBackoffUncapped(b) == IF b <= 0 THEN InitialBackoff ELSE b * 2

\* the backoff that scheduleBackoff sets
NextBackoff(b) ==
    IF b <= 0 THEN InitialBackoff
    ELSE IF b * 2 > MaxBackoff THEN MaxBackoff ELSE b * 2

\* the gate comparing with the time of the failure
GatedAtFailure(t) == nextAttempt # ZeroTime /\ t < nextAttempt - backoff

\* the gate at the head of flush
Gated(t) == nextAttempt # ZeroTime /\ t < nextAttempt

BatchIds(b) == {b[i].ID : i \in 1..Len(b)}

Waiting == {r \in Tasks : pc[r] = "wait"}

\* ------------------------------------------------------------ request tasks
ServeHTTPCookieLate(r, path, cookie, userID) ==
    /\ pc[r] = "idle"
    /\ ~isDashboardRequest(path)
    /\ cookieState' = [cookieState EXCEPT ![r] = readCookie(cookie, userID)]
    /\ req' = [req EXCEPT ![r] = [path |-> path, cookie |-> cookie,
                                  auth |-> EmptyString]]
    /\ pc' = [pc EXCEPT ![r] = "handler"]
    /\ UNCHANGED <<lifeVars, dashboardVars, analyzerVars, sidecarVars, respVars, headers, rec, evt, queueVars, workerVars, histVars, now>>

\* ServeHTTP of a request that is not for the dashboard, up to the call of the
\* downstream handler: readCookie, maybeSetCookie
ServeHTTP(r, path, cookie, userID) ==
    /\ pc[r] = "idle"
    /\ ~isDashboardRequest(path)
    /\ LET state == readCookie(cookie, userID)
       IN /\ cookieState' = [cookieState EXCEPT ![r] = state]
          /\ headers' = [headers EXCEPT ![r] = maybeSetCookie(headers[r], state)]
    /\ req' = [req EXCEPT ![r] = [path |-> path, cookie |-> cookie,
                                  auth |-> EmptyString]]
    /\ pc' = [pc EXCEPT ![r] = "handler"]
    /\ UNCHANGED <<lifeVars, dashboardVars, analyzerVars, sidecarVars, respVars, rec, evt, queueVars, workerVars, histVars, now>>

bearerMismatchPrefixOnly(auth) ==
    /\ DashboardToken # EmptyString
    /\ ~HasPrefix(auth, <<"Bearer ">>)

\* proxyDashboard: a token is configured and the Authorization header is not
\* "Bearer " followed by it
bearerMismatch(auth) ==
    /\ DashboardToken # EmptyString
    /\ \/ ~HasPrefix(auth, <<"Bearer ">>)
       \/ TrimPrefix(auth, <<"Bearer ">>) # DashboardToken

\* what proxyDashboard answers: 401 on a bearer mismatch, 502 when the sidecar
\* cannot be reached, else the sidecar's status
proxyStatus(auth, upstream) ==
    IF bearerMismatch(auth) THEN StatusUnauthorized
    ELSE IF upstream = 0 THEN StatusBadGateway ELSE upstream

\* the body proxyDashboard writes: "Unauthorized", nothing with a 502, else
\* the copy of the sidecar's body
proxyBody(auth, upstream) ==
    IF bearerMismatch(auth) THEN <<"Unauthorized">>
    ELSE IF upstream = 0 THEN EmptyString ELSE <<"dashboard">>

\* the calls of client.Do that proxyDashboard makes
proxyForwarded(auth, upstream) == IF bearerMismatch(auth) THEN 0 ELSE 1

\* the Set-Cookie entries among the headers proxyDashboard copies from the
\* sidecar's response: the /stats and favicon handlers of the sidecar set none
proxyHeaders(auth, upstream) == << >>

\* ServeHTTP of a dashboard request: proxyDashboard and return
ServeDashboard(r, path, auth, upstream) ==
    /\ pc[r] = "idle"
    /\ isDashboardRequest(path)
    /\ req' = [req EXCEPT ![r] = [path |-> path, cookie |-> NoCookie, auth |-> auth]]
    /\ rec' = [rec EXCEPT ![r] = [status |-> proxyStatus(auth, upstream),
                                  contentType |-> EmptyString]]
    /\ body' = [body EXCEPT ![r] = proxyBody(auth, upstream)]
    /\ forwarded' = [forwarded EXCEPT ![r] = @ + proxyForwarded(auth, upstream)]
    /\ wire' = [wire EXCEPT ![r] = proxyHeaders(auth, upstream)]
    /\ pc' = [pc EXCEPT ![r] = "done"]
    /\ UNCHANGED <<lifeVars, dashboardVars, analyzerVars, sidecarVars, cookieState, headers, evt, queueVars, workerVars, histVars, now>>

\* the downstream handler answers and the response header goes out with the
\* header map as it is then (a handler that writes nothing leaves that to
\* finalize, which sends the same map); ServeHTTP reads the recorder and, for
\* a loggable response, enqueueEvent builds the event and calls Enqueue
Handler(r, status, contentType) ==
    /\ pc[r] = "handler"
    /\ rec' = [rec EXCEPT ![r] = [status |-> status, contentType |-> contentType]]
    /\ wire' = [wire EXCEPT ![r] = headers[r]]
    /\ IF isLoggable(status, contentType)
       THEN /\ evt' = [evt EXCEPT ![r] = newEvent(cookieState[r])]
            /\ pc' = [pc EXCEPT ![r] = "lock"]
       ELSE /\ evt' = evt
            /\ pc' = [pc EXCEPT ![r] = "done"]
    /\ UNCHANGED <<lifeVars, dashboardVars, analyzerVars, sidecarVars, body, forwarded, req, cookieState, headers, queueVars, workerVars,
                   histVars, now>>

\* Enqueue, under the mutex: the queue is full, cond.Wait
EnqueueWait(r) ==
    /\ pc[r] = "lock"
    /\ Full(count, maxEvents)
    /\ pc' = [pc EXCEPT ![r] = "wait"]
    /\ UNCHANGED <<lifeVars, dashboardVars, analyzerVars, sidecarVars, respVars, req, cookieState, headers, rec, evt, queueVars, workerVars, histVars, now>>

\* Enqueue, under the mutex: a slot is free, count++
EnqueueReserve(r) ==
    /\ pc[r] = "lock"
    /\ ~Full(count, maxEvents)
    /\ count' = count + 1
    /\ pc' = [pc EXCEPT ![r] = "insert"]
    /\ UNCHANGED <<lifeVars, dashboardVars, analyzerVars, sidecarVars, respVars, req, cookieState, headers, rec, evt, table, seq, notify, maxEvents,
                   connHeld, workerVars, histVars, now>>

\* Enqueue: INSERT INTO events(payload) succeeds; a closed handle returns an
\* error for every statement
EnqueueInsert(r) ==
    /\ pc[r] = "insert"
    /\ ~closed
    /\ ~connHeld
    /\ LET id == AutoIncrement(table, seq)
       IN /\ table' = table \cup {[id |-> id, ok |-> TRUE, ev |-> evt[r]]}
          /\ seq' = id
    /\ pc' = [pc EXCEPT ![r] = "notify"]
    /\ UNCHANGED <<lifeVars, dashboardVars, analyzerVars, sidecarVars, respVars, req, cookieState, headers, rec, evt, count, notify, maxEvents,
                   connHeld, workerVars, histVars, now>>

\* a failing insert that wakes no waiting Enqueue
EnqueueInsertFailSilent(r) ==
    /\ pc[r] = "insert"
    /\ count' = count - 1
    /\ pc' = [pc EXCEPT ![r] = "done"]
    /\ UNCHANGED <<lifeVars, dashboardVars, analyzerVars, sidecarVars, respVars, req,
                   cookieState, headers, rec, evt, table, seq, notify, maxEvents,
                   connHeld, workerVars, histVars, now>>

\* Enqueue: the INSERT fails; count--, cond.Signal, the error is logged by
\* enqueueEvent and the event is dropped
EnqueueInsertFail(r) ==
    /\ pc[r] = "insert"
    /\ ~connHeld
    /\ count' = count - 1
    /\ IF Waiting = {}
       THEN pc' = [pc EXCEPT ![r] = "done"]
       ELSE \E w \in Waiting : pc' = [pc EXCEPT ![r] = "done", ![w] = "lock"]
    /\ UNCHANGED <<lifeVars, dashboardVars, analyzerVars, sidecarVars, respVars, req, cookieState, headers, rec, evt, table, seq, notify, maxEvents,
                   connHeld, workerVars, histVars, now>>

\* an Enqueue that returns without a notification
EnqueueNotifySkipped(r) ==
    /\ pc[r] = "notify"
    /\ notify' = notify
    /\ pc' = [pc EXCEPT ![r] = "done"]
    /\ UNCHANGED <<lifeVars, dashboardVars, analyzerVars, sidecarVars, respVars, req,
                   cookieState, headers, rec, evt, table, seq, count, maxEvents,
                   connHeld, workerVars, histVars, now>>

\* Enqueue: the non-blocking send on notify, then ServeHTTP finalizes
EnqueueNotify(r) ==
    /\ pc[r] = "notify"
    /\ notify' = 1
    /\ pc' = [pc EXCEPT ![r] = "done"]
    /\ UNCHANGED <<lifeVars, dashboardVars, analyzerVars, sidecarVars, respVars, req, cookieState, headers, rec, evt, table, seq, count, maxEvents,
                   connHeld, workerVars, histVars, now>>

\* ------------------------------------------------------------------- worker
\* a worker whose ticker never leads to a flush
WorkerTickIdle ==
    /\ wpc = "select"
    /\ UNCHANGED vars

\* worker: case <-ticker.C, and the gate of flush
WorkerTick ==
    /\ wpc = "select"
    /\ wpc' = IF Gated(now) THEN "select" ELSE "fetch"
    /\ UNCHANGED <<lifeVars, dashboardVars, analyzerVars, sidecarVars, respVars, batch, affected, backoff, nextAttempt, queueVars, taskVars, histVars, now>>

\* worker: case <-m.queue.notify, and the gate of flush
WorkerNotify ==
    /\ wpc = "select"
    /\ notify = 1
    /\ notify' = 0
    /\ wpc' = IF Gated(now) THEN "select" ELSE "fetch"
    /\ UNCHANGED <<lifeVars, dashboardVars, analyzerVars, sidecarVars, respVars, batch, affected, backoff, nextAttempt, table, seq, count, maxEvents,
                   connHeld, taskVars, histVars, now>>

\* flush: FetchBatch returns an error (the query fails)
FetchError ==
    /\ wpc = "fetch"
    /\ wpc' = "select"
    /\ UNCHANGED <<lifeVars, dashboardVars, analyzerVars, sidecarVars, respVars, batch, affected, backoff, nextAttempt, queueVars, taskVars, histVars, now>>

\* a pool that opens a connection whenever one is asked for
PoolUnlimited(inUse) == FALSE

\* database/sql: a statement waits for a connection while MaxOpenConns
\* connections are in use
PoolExhausted(inUse) == inUse >= MaxOpenConns

\* the queuedEvent entries FetchBatch returns for decodable rows
Decoded(rows) == [i \in 1..Len(rows) |-> [ID |-> rows[i].id, Event |-> rows[i].ev]]

\* the rows whose payload json.Unmarshal decodes
Decodable(rows) == SelectSeq(rows, LAMBDA row : row.ok)

\* FetchBatch meets a payload that does not decode and deletes the row with
\* q.db.Exec while the result set of its SELECT is open and holds a connection.
\* With no connection left the Exec waits, the result set is never closed and
\* no statement of the queue gets a connection again. With one, the rows that
\* do not decode are deleted, count stays, and flush goes on with the others.
FetchUndecodable ==
    /\ wpc = "fetch"
    /\ ~closed
    /\ LET rows == SelectBatch(table, BatchSize)
       IN /\ \E i \in 1..Len(rows) : ~rows[i].ok
          /\ IF PoolExhausted(1)
             THEN /\ wpc' = "blocked"
                  /\ connHeld' = TRUE
                  /\ UNCHANGED <<table, batch, backoff, nextAttempt, failedBatch,
                                 crashedBatch, failures, failedAt>>
             ELSE /\ table' = table \ {rows[i] : i \in {j \in 1..Len(rows) : ~rows[j].ok}}
                  /\ batch' = Decoded(Decodable(rows))
                  /\ IF Decodable(rows) = << >>
                     THEN /\ wpc' = "select"
                          /\ backoff' = 0
                          /\ nextAttempt' = ZeroTime
                          /\ failures' = 0
                          /\ failedAt' = << >>
                          /\ UNCHANGED <<failedBatch, crashedBatch>>
                     ELSE /\ wpc' = "stream"
                          /\ failedBatch' = << >>
                          /\ crashedBatch' = << >>
                          /\ UNCHANGED <<backoff, nextAttempt, failures, failedAt>>
                  /\ UNCHANGED connHeld
    /\ UNCHANGED <<lifeVars, dashboardVars, analyzerVars, sidecarVars, respVars, affected, seq, count,
                   notify, maxEvents, taskVars, streamed, deletedUpTo, restarts, now>>

\* flush: FetchBatch returns no events; the backoff is reset
FetchEmpty ==
    /\ wpc = "fetch"
    /\ ~closed
    /\ SelectBatch(table, BatchSize) = << >>
    /\ backoff' = 0
    /\ nextAttempt' = ZeroTime
    /\ failures' = 0
    /\ failedAt' = << >>
    /\ wpc' = "select"
    /\ UNCHANGED <<lifeVars, dashboardVars, analyzerVars, sidecarVars, respVars, batch, affected, queueVars, taskVars, streamed, deletedUpTo,
                   failedBatch, crashedBatch, restarts, now>>

\* flush: FetchBatch returns a batch
FetchBatch ==
    /\ wpc = "fetch"
    /\ ~closed
    /\ LET rows == SelectBatch(table, BatchSize)
       IN /\ rows # << >>
          /\ \A i \in 1..Len(rows) : rows[i].ok
          /\ batch' = Decoded(rows)
    /\ wpc' = "stream"
    /\ failedBatch' = << >>
    /\ crashedBatch' = << >>
    /\ UNCHANGED <<lifeVars, dashboardVars, analyzerVars, sidecarVars, respVars, affected, backoff, nextAttempt, queueVars, taskVars, streamed,
                   deletedUpTo, failures, failedAt, restarts, now>>

\* flush: StreamEvents returns nil (the sidecar answered 202)
StreamOK ==
    /\ wpc = "stream"
    /\ streamed' = streamed \cup BatchIds(batch)
    /\ wpc' = "delete"
    /\ UNCHANGED <<lifeVars, dashboardVars, analyzerVars, sidecarVars, respVars, batch, affected, backoff, nextAttempt, queueVars, taskVars,
                   deletedUpTo, failedBatch, crashedBatch, failures, failedAt, restarts, now>>

StreamErrorIgnored ==
    /\ wpc = "stream"
    /\ backoff' = NextBackoff(backoff)
    /\ nextAttempt' = now + NextBackoff(backoff)
    /\ failedBatch' = batch
    /\ failures' = failures + 1
    /\ failedAt' = Append(failedAt, now)
    /\ wpc' = "delete"
    /\ UNCHANGED <<lifeVars, dashboardVars, analyzerVars, sidecarVars, respVars, batch, affected, queueVars, taskVars, streamed, deletedUpTo,
                   crashedBatch, restarts, now>>

\* flush: StreamEvents returns an error; scheduleBackoff and return
StreamError ==
    /\ wpc = "stream"
    /\ backoff' = NextBackoff(backoff)
    /\ nextAttempt' = now + NextBackoff(backoff)
    /\ failedBatch' = batch
    /\ failures' = failures + 1
    /\ failedAt' = Append(failedAt, now)
    /\ batch' = << >>
    /\ wpc' = "select"
    /\ UNCHANGED <<lifeVars, dashboardVars, analyzerVars, sidecarVars, respVars, affected, queueVars, taskVars, streamed, deletedUpTo,
                   crashedBatch, restarts, now>>

lastID == batch[Len(batch)].ID

\* flush: DeleteUpTo returns an error; scheduleBackoff and return
DeleteError ==
    /\ wpc = "delete"
    /\ backoff' = NextBackoff(backoff)
    /\ nextAttempt' = now + NextBackoff(backoff)
    /\ failures' = failures + 1
    /\ failedAt' = Append(failedAt, now)
    /\ batch' = << >>
    /\ wpc' = "select"
    /\ UNCHANGED <<lifeVars, dashboardVars, analyzerVars, sidecarVars, respVars, affected, queueVars, taskVars, streamed, deletedUpTo,
                   failedBatch, crashedBatch, restarts, now>>

\* DeleteUpTo: the DELETE succeeds
DeleteUpTo ==
    /\ wpc = "delete"
    /\ ~closed
    /\ lastID > 0
    /\ table' = DeleteWhere(table, lastID)
    /\ affected' = CountRows(table) - CountRows(DeleteWhere(table, lastID))
    /\ deletedUpTo' = Max(deletedUpTo, lastID)
    /\ wpc' = "account"
    /\ UNCHANGED <<lifeVars, dashboardVars, analyzerVars, sidecarVars, respVars, batch, backoff, nextAttempt, seq, count, notify, maxEvents, connHeld,
                   taskVars, streamed, failedBatch, crashedBatch, failures, failedAt, restarts, now>>

\* DeleteUpTo, under the mutex: count -= affected, cond.Broadcast; flush loops
DeleteAccount ==
    /\ wpc = "account"
    /\ IF affected > 0
       THEN /\ count' = Decrement(count, affected)
            /\ pc' = [r \in Tasks |-> IF pc[r] = "wait" THEN "lock" ELSE pc[r]]
       ELSE UNCHANGED <<count, pc>>
    /\ wpc' = "fetch"
    /\ batch' = << >>
    /\ affected' = 0
    /\ UNCHANGED <<lifeVars, dashboardVars, analyzerVars, sidecarVars, respVars, backoff, nextAttempt, table, seq, notify, maxEvents,
                   connHeld, req, cookieState, headers, rec, evt, histVars, now>>

\* ------------------------------------------------------------------ shutdown
\* Close: close(m.stop), then queue.Close closes the handle of the buffer file
Close ==
    /\ ~stop
    /\ stop' = TRUE
    /\ closed' = TRUE
    /\ UNCHANGED <<ctxDone, dashboardVars, analyzerVars, sidecarVars, respVars, queueVars,
                   taskVars, workerVars, histVars, now>>

\* the context that was passed to New is cancelled
Cancel ==
    /\ ~ctxDone
    /\ ctxDone' = TRUE
    /\ UNCHANGED <<stop, closed, dashboardVars, analyzerVars, sidecarVars, respVars,
                   queueVars, taskVars, workerVars, histVars, now>>

\* worker: case <-m.stop: return
WorkerStop ==
    /\ wpc = "select"
    /\ stop
    /\ wpc' = "returned"
    /\ UNCHANGED <<lifeVars, dashboardVars, analyzerVars, sidecarVars, respVars, batch,
                   affected, backoff, nextAttempt, queueVars, taskVars, histVars, now>>

\* worker: case <-ctx.Done(): return
WorkerDone ==
    /\ wpc = "select"
    /\ ctxDone
    /\ wpc' = "returned"
    /\ UNCHANGED <<lifeVars, dashboardVars, analyzerVars, sidecarVars, respVars, batch,
                   affected, backoff, nextAttempt, queueVars, taskVars, histVars, now>>

\* --------------------------------------------------------------- environment
\* the process stops and New opens the same buffer file again: newDiskQueue
\* counts the rows, the worker starts over, requests in flight are gone
InFlight(p) == p \in {"handler", "lock", "wait", "insert", "notify"}

Restart ==
    /\ restarts < MaxRestarts
    /\ restarts' = restarts + 1
    /\ count' = CountRows(table)
    /\ failures' = 0
    /\ failedAt' = << >>
    /\ notify' = 0
    /\ connHeld' = FALSE
    /\ pc' = [r \in Tasks |-> IF InFlight(pc[r]) THEN "done" ELSE pc[r]]
    /\ wpc' = "select"
    /\ batch' = << >>
    /\ affected' = 0
    /\ backoff' = 0
    /\ nextAttempt' = ZeroTime
    /\ crashedBatch' = IF wpc = "delete" THEN batch ELSE crashedBatch
    /\ UNCHANGED <<lifeVars, dashboardVars, analyzerVars, sidecarVars, respVars, table, seq, maxEvents, req, cookieState, headers, rec, evt,
                   streamed, deletedUpTo, failedBatch, now>>

\* time passes, in steps of InitialBackoff. The clock is read only by the gate of
\* flush and by scheduleBackoff, which add to it and compare with it, so only
\* the time that passes while a backoff is pending is kept.
AdvanceTime(ticks) ==
    /\ Gated(now)
    /\ now + InitialBackoff <= ticks * InitialBackoff
    /\ now' = now + InitialBackoff
    /\ UNCHANGED <<lifeVars, dashboardVars, analyzerVars, sidecarVars, respVars, queueVars, taskVars, workerVars, histVars>>

\* -------------------------------------------------------------------- regexp
\* The analyzer's strings are sequences of single characters. Its regular
\* expressions are all compiled with (?i): they are written here in lower
\* case and matched against the lower-cased subject; the characters of the
\* model are ASCII.
Digit == {"0", "1", "2", "3", "4", "5", "6", "7", "8", "9"}
Letter == {"a", "b", "c", "d", "e", "f", "g", "h", "i", "j", "k", "l", "m", "n", "o", "p", "q", "r", "s", "t", "u", "v", "w", "x", "y", "z"}
\* \w
Word == Letter \cup Digit \cup {"_"}
Space == {" ", "\t", "\n", "\r"}

\* regexp/syntax: the nodes of a parsed expression
CharClass(cs) == [op |-> "class", cs |-> cs, neg |-> FALSE]
NotCharClass(cs) == [op |-> "class", cs |-> cs, neg |-> TRUE]
AnyCharNotNL == NotCharClass({"\n"})
Concat(subs) == [op |-> "concat", subs |-> subs]
Alternate(subs) == [op |-> "alternate", subs |-> subs]
Star(sub) == [op |-> "star", sub |-> sub]
Plus(sub) == [op |-> "plus", sub |-> sub]
Quest(sub) == [op |-> "quest", sub |-> sub]
Repeat(sub, n) == Concat([k \in 1..n |-> sub])
Literal(str) == Concat([k \in 1..Len(str) |-> CharClass({str[k]})])
BeginText == [op |-> "begin"]
EndText == [op |-> "end"]
WordBoundary == [op |-> "wordboundary"]
EmptyMatch == Concat(<< >>)

\* a and then the elements of b that a does not have
Merge(a, b) == a \o SelectSeq(b, LAMBDA e : \A k \in 1..Len(a) : a[k] # e)

IsWordChar(s, i) == i >= 1 /\ i <= Len(s) /\ s[i] \in Word

\* the characters of s from position i on that are in the class
InClass(re, s, i) == i <= Len(s) /\ ((s[i] \in re.cs) # re.neg)

\* the characters of s from position i to position hi that are in the class,
\* counted from i up to the first one that is not
RECURSIVE Run(_, _, _, _)
Run(re, s, i, hi) ==
    IF i > hi THEN 0
    ELSE IF i = hi THEN (IF InClass(re, s, i) THEN 1 ELSE 0)
    ELSE LET mid == (i + hi) \div 2
             n == Run(re, s, i, mid)
         IN IF n = mid - i + 1 THEN n + Run(re, s, mid + 1, hi) ELSE n

\* the ends of a repetition that can take n characters from position i and
\* must take min: the longest first
Downward(i, n, min) == [k \in 1..n + 1 - min |-> i + n + 1 - k]

\* The positions where a match of re that begins at position i of s can end,
\* in the order of preference of a leftmost-first match: a repetition takes
\* as much as it can, an alternation its first alternative.
RECURSIVE Ends(_, _, _)
RECURSIVE EndsFrom(_, _, _)
RECURSIVE EndsConcat(_, _, _)
RECURSIVE EndsAlternate(_, _, _)
EndsFrom(re, s, from) ==
    IF from = << >> THEN << >>
    ELSE IF Len(from) = 1 THEN Ends(re, s, from[1])
    ELSE LET mid == Len(from) \div 2
         IN Merge(EndsFrom(re, s, SubSeq(from, 1, mid)),
                  EndsFrom(re, s, SubSeq(from, mid + 1, Len(from))))

EndsConcat(subs, s, from) ==
    IF subs = << >> \/ from = << >> THEN from
    ELSE EndsConcat(Tail(subs), s, EndsFrom(Head(subs), s, from))

EndsAlternate(subs, s, i) ==
    IF subs = << >> THEN << >>
    ELSE Merge(Ends(Head(subs), s, i), EndsAlternate(Tail(subs), s, i))

Ends(re, s, i) ==
    CASE re.op = "class" -> IF InClass(re, s, i) THEN <<i + 1>> ELSE << >>
      [] re.op = "concat" -> EndsConcat(re.subs, s, <<i>>)
      [] re.op = "alternate" -> EndsAlternate(re.subs, s, i)
      [] re.op = "quest" -> Merge(Ends(re.sub, s, i), <<i>>)
      [] re.op = "star" ->
            IF re.sub.op = "class"
            THEN Downward(i, Run(re.sub, s, i, Len(s)), 0)
            ELSE Merge(EndsFrom(re, s, SelectSeq(Ends(re.sub, s, i), LAMBDA e : e # i)),
                       <<i>>)
      [] re.op = "plus" ->
            IF re.sub.op = "class"
            THEN Downward(i, Run(re.sub, s, i, Len(s)), 1)
            ELSE EndsFrom(Star(re.sub), s, Ends(re.sub, s, i))
      [] re.op = "begin" -> IF i = 1 THEN <<i>> ELSE << >>
      [] re.op = "end" -> IF i = Len(s) + 1 THEN <<i>> ELSE << >>
      [] re.op = "wordboundary" ->
            IF IsWordChar(s, i - 1) # IsWordChar(s, i) THEN <<i>> ELSE << >>

\* the length of the shortest string an expression matches
RECURSIVE MinLen(_)
RECURSIVE MinLenSum(_)
RECURSIVE MinLenMin(_)
MinLenSum(subs) ==
    IF subs = << >> THEN 0 ELSE MinLen(Head(subs)) + MinLenSum(Tail(subs))

MinLenMin(subs) ==
    IF Len(subs) = 1 THEN MinLen(subs[1])
    ELSE Min(MinLen(Head(subs)), MinLenMin(Tail(subs)))

MinLen(re) ==
    CASE re.op = "class" -> 1
      [] re.op = "concat" -> MinLenSum(re.subs)
      [] re.op = "alternate" -> MinLenMin(re.subs)
      [] re.op = "plus" -> MinLen(re.sub)
      [] OTHER -> 0

\* a compiled expression: what precedes its capturing group, the group (the
\* empty expression when it has none) and what follows it, and the length of
\* its shortest match
Regexp(pre, group, post) ==
    [pre |-> pre, group |-> group, post |-> post,
     min |-> MinLen(pre) + MinLen(group) + MinLen(post)]

NoMatch == [found |-> FALSE, start |-> 0, end |-> 0, lo |-> 0, hi |-> 0]

\* a match of the group from lo to hi when the rest of the expression can
\* follow it, to one of ends
groupMatch(lo, hi, ends) ==
    IF ends = << >> THEN NoMatch
    ELSE [found |-> TRUE, start |-> 0, end |-> ends[1], lo |-> lo, hi |-> hi]

orElse(m, other) == IF m.found THEN m ELSE other

\* the first of the ends his of the group, from lo, that the rest of the
\* expression can follow
RECURSIVE matchGroup(_, _, _, _)
matchGroup(re, s, lo, his) ==
    IF his = << >> THEN NoMatch
    ELSE IF Len(his) = 1 THEN groupMatch(lo, his[1], Ends(re.post, s, his[1]))
    ELSE orElse(matchGroup(re, s, lo, SubSeq(his, 1, Len(his) \div 2)),
                matchGroup(re, s, lo, SubSeq(his, Len(his) \div 2 + 1, Len(his))))

\* the first of the starts los of the group that gives a match
RECURSIVE matchPre(_, _, _)
matchPre(re, s, los) ==
    IF los = << >> THEN NoMatch
    ELSE IF Len(los) = 1 THEN matchGroup(re, s, los[1], Ends(re.group, s, los[1]))
    ELSE orElse(matchPre(re, s, SubSeq(los, 1, Len(los) \div 2)),
                matchPre(re, s, SubSeq(los, Len(los) \div 2 + 1, Len(los))))

startingAt(m, i) == IF m.found THEN [m EXCEPT !.start = i] ELSE NoMatch

\* the leftmost match of re in s that begins at one of the positions i..hi
RECURSIVE matchFrom(_, _, _, _)
matchFrom(re, s, i, hi) ==
    IF i > hi THEN NoMatch
    ELSE IF i = hi THEN startingAt(matchPre(re, s, Ends(re.pre, s, i)), i)
    ELSE orElse(matchFrom(re, s, i, (i + hi) \div 2),
                matchFrom(re, s, (i + hi) \div 2 + 1, hi))

\* the leftmost-first match of re in s, s in lower case; no match begins
\* where less than the shortest match is left of s
match(re, s) == matchFrom(re, s, 1, Len(s) + 1 - re.min)

\* the match and its first group as parts of s, << >> for no match
submatches(s, m) ==
    IF m.found THEN <<SubSeq(s, m.start, m.end - 1), SubSeq(s, m.lo, m.hi - 1)>>
    ELSE << >>

\* Regexp.FindStringSubmatch
FindStringSubmatch(re, s) == submatches(s, match(re, ToLower(s)))

\* Regexp.FindStringIndex(s) != nil
MatchString(re, s) == FindStringSubmatch(re, s) # << >>

\* strings.TrimSpace
RECURSIVE TrimLeft(_)
TrimLeft(s) == IF s # << >> /\ Head(s) \in Space THEN TrimLeft(Tail(s)) ELSE s

RECURSIVE TrimRight(_)
TrimRight(s) ==
    IF s # << >> /\ s[Len(s)] \in Space THEN TrimRight(SubSeq(s, 1, Len(s) - 1)) ELSE s

TrimSpace(s) == TrimRight(TrimLeft(s))

\* strings.Contains
Contains(s, substr) ==
    \E i \in 1..Len(s) + 1 : HasPrefix(SubSeq(s, i, Len(s)), substr)

\* strings.EqualFold
EqualFold(s, t) == ToLower(s) = ToLower(t)

\* ------------------------------------------------------------------ analyzer
\* hashUUID: the SHA-256 of the input in the textual form of a UUID
hashUUID(input) == <<"sha256:">> \o input

\* [\w\.\-_@]
NameChar == Word \cup {".", "-", "_", "@"}
\* (\w, . _ @ and space)*(\w, . _ @): a name that does not end in a space
NameOf(cs) == Concat(<<Star(CharClass(cs \cup {" "})), CharClass(cs)>>)
MozillaPrefix == Concat(<<BeginText, Literal(<<"m", "o", "z", "i", "l", "l", "a", "/">>), Star(AnyCharNotNL), Literal(<<" ">>)>>)
Version(cs) == Concat(<<Literal(<<"/">>), Plus(CharClass(cs))>>)

\* (?i)(?:Leed|BeyondPod|360Spider|Lark|Nutch|Skype|leakix\.net|uni-app)
reSpecial ==
    Regexp(Alternate(<<Literal(<<"l", "e", "e", "d">>), Literal(<<"b", "e", "y", "o", "n", "d", "p", "o", "d">>), Literal(<<"3", "6", "0", "s", "p", "i", "d", "e", "r">>),
                       Literal(<<"l", "a", "r", "k">>), Literal(<<"n", "u", "t", "c", "h">>), Literal(<<"s", "k", "y", "p", "e">>),
                       Literal(<<"l", "e", "a", "k", "i", "x", ".", "n", "e", "t">>), Literal(<<"u", "n", "i", "-", "a", "p", "p">>)>>),
           EmptyMatch, EmptyMatch)

\* (?i)^[0-9A-F]{8}-[0-9A-F]{4}-[0-9A-F]{4}-[0-9A-F]{4}-[0-9A-F]{12}/\d+ ([^;(/]+)
reUUIDPrefix ==
    LET hex == CharClass(Digit \cup {"a", "b", "c", "d", "e", "f"})
    IN Regexp(Concat(<<BeginText, Repeat(hex, 8), Literal(<<"-">>), Repeat(hex, 4),
                       Literal(<<"-">>), Repeat(hex, 4), Literal(<<"-">>), Repeat(hex, 4),
                       Literal(<<"-">>), Repeat(hex, 12), Literal(<<"/">>),
                       Plus(CharClass(Digit)), Literal(<<" ">>)>>),
              Plus(NotCharClass({";", "(", "/"})), EmptyMatch)

\* (?i)compatible; ([^;(/+]*[^;(/+ ])
reCompatible ==
    Regexp(Literal(<<"c", "o", "m", "p", "a", "t", "i", "b", "l", "e", ";", " ">>),
           Concat(<<Star(NotCharClass({";", "(", "/", "+"})), NotCharClass({";", "(", "/", "+", " "})>>),
           EmptyMatch)

\* (?i)^[\w\.\-_@ ]*[\w\.\-_@] (?:ro)?bot
reBotBefore ==
    Regexp(Concat(<<BeginText, NameOf(NameChar), Literal(<<" ">>), Quest(Literal(<<"r", "o">>)),
                    Literal(<<"b", "o", "t">>)>>),
           EmptyMatch, EmptyMatch)

\* (?i)\b[\w-_]+bot\b
reBotContains ==
    Regexp(Concat(<<WordBoundary, Plus(CharClass(Word \cup {"-", "_"})), Literal(<<"b", "o", "t">>),
                    WordBoundary>>),
           EmptyMatch, EmptyMatch)

\* (?i)Trident/[0-9.]+
reTrident ==
    Regexp(Concat(<<Literal(<<"t", "r", "i", "d", "e", "n", "t", "/">>), Plus(CharClass(Digit \cup {"."}))>>),
           EmptyMatch, EmptyMatch)

\* (?i)^Mozilla/.* ([A-Za-z0-9_]+)/[A-Z0-9.]+(?: (?:Chrome|Version|Mobile|Safari|Mobile Safari)/[A-Z0-9.]+)+$
reMozillaFirst ==
    LET version == Version(Letter \cup Digit \cup {"."})
    IN Regexp(MozillaPrefix, Plus(CharClass(Word)),
              Concat(<<version,
                       Plus(Concat(<<Literal(<<" ">>),
                                     Alternate(<<Literal(<<"c", "h", "r", "o", "m", "e">>), Literal(<<"v", "e", "r", "s", "i", "o", "n">>),
                                                 Literal(<<"m", "o", "b", "i", "l", "e">>), Literal(<<"s", "a", "f", "a", "r", "i">>),
                                                 Literal(<<"m", "o", "b", "i", "l", "e", " ", "s", "a", "f", "a", "r", "i">>)>>),
                                     version>>)),
                       EndText>>))

\* (?i)^Mozilla/.* ([A-Za-z0-9_]+)/[0-9.]+(?: Mobile)? Safari/[0-9.]+$
reMozillaSafari ==
    Regexp(MozillaPrefix, Plus(CharClass(Word)),
           Concat(<<Version(Digit \cup {"."}), Quest(Literal(<<" ", "m", "o", "b", "i", "l", "e">>)),
                    Literal(<<" ", "s", "a", "f", "a", "r", "i">>), Version(Digit \cup {"."}), EndText>>))

\* (?i)^Mozilla/.* ([A-Za-z0-9_]+)/[a-z0-9.]+(?: \([^\)]+\)| Mobile| GTB[0-9.]+)*$
reMozillaLast ==
    Regexp(MozillaPrefix, Plus(CharClass(Word)),
           Concat(<<Version(Letter \cup Digit \cup {"."}),
                    Star(Alternate(<<Concat(<<Literal(<<" ", "(">>), Plus(NotCharClass({")"})),
                                              Literal(<<")">>)>>),
                                     Literal(<<" ", "m", "o", "b", "i", "l", "e">>),
                                     Concat(<<Literal(<<" ", "g", "t", "b">>),
                                              Plus(CharClass(Digit \cup {"."}))>>)>>)),
                    EndText>>))

\* (?i)^([\w\.\-_@ ]*[\w\.\-_@]) feed-id:
reFeedIDName == Regexp(BeginText, NameOf(NameChar), Literal(<<" ", "f", "e", "e", "d", "-", "i", "d", ":">>))

\* (?i)^([\w\._@ ]*[\w\._@]) - 
reBeforeDash == Regexp(BeginText, NameOf(Word \cup {".", "_", "@"}), Literal(<<" ", "-", " ">>))

\* (?i)^([\w\.\-_@ ]*[\w\.\-_@])[- ]v?\d+\.\d+
reBeforeVersion ==
    Regexp(BeginText, NameOf(NameChar),
           Concat(<<CharClass({"-", " "}), Quest(Literal(<<"v">>)), Plus(CharClass(Digit)),
                    Literal(<<".">>), Plus(CharClass(Digit))>>))

\* (?i)^([\w\.\-_@% ]*[\w\.\-_@%]) ?[/\(:\+]
reBeforeSlash ==
    Regexp(BeginText, NameOf(NameChar \cup {"%"}),
           Concat(<<Quest(Literal(<<" ">>)), CharClass({"/", "(", ":", "+"})>>))

\* (?i)^[\w\.\-_@ ]*[\w\.\-_@]$
reSingleWord ==
    Regexp(Concat(<<BeginText, NameOf(NameChar), EndText>>), EmptyMatch, EmptyMatch)

\* (?i)rss
reRSS == Regexp(Literal(<<"r", "s", "s">>), EmptyMatch, EmptyMatch)

\* (?i)bot|crawl|fetch|node|ruby|.rb|python|curl|okhttp|spider|scan|nutch|mastodon|\+http
reBotUA ==
    Regexp(Alternate(<<Literal(<<"b", "o", "t">>), Literal(<<"c", "r", "a", "w", "l">>), Literal(<<"f", "e", "t", "c", "h">>),
                       Literal(<<"n", "o", "d", "e">>), Literal(<<"r", "u", "b", "y">>),
                       Concat(<<AnyCharNotNL, Literal(<<"r", "b">>)>>), Literal(<<"p", "y", "t", "h", "o", "n">>),
                       Literal(<<"c", "u", "r", "l">>), Literal(<<"o", "k", "h", "t", "t", "p">>), Literal(<<"s", "p", "i", "d", "e", "r">>),
                       Literal(<<"s", "c", "a", "n">>), Literal(<<"n", "u", "t", "c", "h">>), Literal(<<"m", "a", "s", "t", "o", "d", "o", "n">>),
                       Literal(<<"+", "h", "t", "t", "p">>)>>),
           EmptyMatch, EmptyMatch)

\* (?i)Android
reOSAndroid == Regexp(Literal(<<"a", "n", "d", "r", "o", "i", "d">>), EmptyMatch, EmptyMatch)

\* (?i)Windows
reOSWindows == Regexp(Literal(<<"w", "i", "n", "d", "o", "w", "s">>), EmptyMatch, EmptyMatch)

\* (?i)iOS|iPhone|iPad|Mobile.*Safari
reOSiOS ==
    Regexp(Alternate(<<Literal(<<"i", "o", "s">>), Literal(<<"i", "p", "h", "o", "n", "e">>), Literal(<<"i", "p", "a", "d">>),
                       Concat(<<Literal(<<"m", "o", "b", "i", "l", "e">>), Star(AnyCharNotNL),
                                Literal(<<"s", "a", "f", "a", "r", "i">>)>>)>>),
           EmptyMatch, EmptyMatch)

\* (?i)macOS|Mac OS|Macintosh|Darwin
reOSMac ==
    Regexp(Alternate(<<Literal(<<"m", "a", "c", "o", "s">>), Literal(<<"m", "a", "c", " ", "o", "s">>), Literal(<<"m", "a", "c", "i", "n", "t", "o", "s", "h">>),
                       Literal(<<"d", "a", "r", "w", "i", "n">>)>>),
           EmptyMatch, EmptyMatch)

\* (?i)Linux|X11
reOSLinux == Regexp(Alternate(<<Literal(<<"l", "i", "n", "u", "x">>), Literal(<<"x", "1", "1">>)>>), EmptyMatch, EmptyMatch)

\* (?i)(\d+) subscriber
reMultiplier == Regexp(EmptyMatch, Plus(CharClass(Digit)), Literal(<<" ", "s", "u", "b", "s", "c", "r", "i", "b", "e", "r">>))

\* (?i)feed-id[=:]([A-Za-z0-9_]+)
reFeedID ==
    Regexp(Concat(<<Literal(<<"f", "e", "e", "d", "-", "i", "d">>), CharClass({"=", ":"})>>), Plus(CharClass(Word)),
           EmptyMatch)

dequote(s) ==
    IF Len(s) >= 2 /\ HasPrefix(s, <<"\"">>) /\ HasSuffix(s, <<"\"">>)
    THEN SubSeq(s, 2, Len(s) - 1)
    ELSE s

\* regexMatch: re.FindString(s), given m = re.FindStringSubmatch(s)
regexMatch(m) == IF m = << >> THEN EmptyString ELSE m[1]

\* regexGroup: group idx of the match
regexGroup(m, idx) == IF Len(m) > idx THEN m[idx + 1] ELSE EmptyString

isExcludedAgent(name) ==
    name \in {<<"C", "h", "r", "o", "m", "e">>, <<"V", "e", "r", "s", "i", "o", "n">>, <<"M", "o", "b", "i", "l", "e">>, <<"S", "a", "f", "a", "r", "i">>, <<"M", "o", "b", "i", "l", "e", " ", "S", "a", "f", "a", "r", "i">>}

\* the expressions of the matchers of lineAgent, in their order
matchers ==
    <<reSpecial, reUUIDPrefix, reCompatible, reBotBefore, reBotContains, reTrident,
      reMozillaFirst, reMozillaSafari, reMozillaLast, reFeedIDName, reBeforeDash,
      reBeforeVersion, reBeforeSlash, reSingleWord>>

\* what matcher k returns when its expression gives the submatches m
matched(k, m) ==
    CASE k \in {1, 4, 5, 14} -> regexMatch(m)
      [] k \in {2, 3, 10, 11, 12} -> regexGroup(m, 1)
      [] k = 6 -> IF regexMatch(m) # EmptyString THEN <<"T", "r", "i", "d", "e", "n", "t">> ELSE EmptyString
      [] k = 7 -> IF Len(m) > 1 /\ ~isExcludedAgent(m[2]) THEN m[2] ELSE EmptyString
      [] k = 8 -> IF Len(m) > 1 /\ ~EqualFold(m[2], <<"V", "e", "r", "s", "i", "o", "n">>) THEN m[2]
                  ELSE EmptyString
      [] k = 9 -> IF Len(m) > 1 THEN m[2] ELSE EmptyString
      [] k = 13 -> IF /\ Len(m) > 1
                      /\ ~EqualFold(m[2], <<"m", "o", "z", "i", "l", "l", "a">>)
                      /\ ~HasPrefix(ToLower(m[2]), <<"m", "o", "z", "i", "l", "l", "a">>)
                   THEN m[2] ELSE EmptyString

matcher(k, s) == matched(k, FindStringSubmatch(matchers[k], s))

\* the loop of lineAgent: the first matcher with a result that is not blank
RECURSIVE firstMatch(_, _)
orNext(val, k, ua) == IF val # EmptyString THEN val ELSE firstMatch(k + 1, ua)

firstMatch(k, ua) ==
    IF k > Len(matchers) THEN EmptyString
    ELSE orNext(TrimSpace(matcher(k, ua)), k, ua)

lineAgent(userAgent) ==
    IF userAgent = EmptyString THEN EmptyString
    ELSE firstMatch(1, dequote(userAgent))

Browsers ==
    {<<"C", "h", "r", "o", "m", "e">>, <<"F", "i", "r", "e", "f", "o", "x">>, <<"E", "d", "g">>, <<"E", "d", "g", "A">>, <<"E", "d", "g", "i", "O", "S">>, <<"S", "a", "f", "a", "r", "i">>, <<"O", "P", "R">>,
     <<"Y", "a", "B", "r", "o", "w", "s", "e", "r">>, <<"V", "i", "v", "a", "l", "d", "i">>, <<"S", "a", "m", "s", "u", "n", "g", "B", "r", "o", "w", "s", "e", "r">>, <<"U", "C", "B", "r", "o", "w", "s", "e", "r">>}

\* the bot pattern deciding before the browser list
lineTypeBotFirst(path, agent, userAgent) ==
    IF userAgent # EmptyString /\ MatchString(reRSS, userAgent) THEN <<"feed">>
    ELSE IF userAgent # EmptyString /\ MatchString(reBotUA, userAgent) THEN <<"bot">>
    ELSE IF agent \in Browsers THEN <<"browser">>
    ELSE IF HasPrefix(userAgent, <<"M", "o", "z", "i", "l", "l", "a", "/">>) THEN <<"browser">>
    ELSE <<"bot">>

lineType(path, agent, userAgent) ==
    IF userAgent # EmptyString /\ MatchString(reRSS, userAgent) THEN <<"feed">>
    ELSE IF agent \in Browsers THEN <<"browser">>
    ELSE IF userAgent # EmptyString /\ MatchString(reBotUA, userAgent) THEN <<"bot">>
    ELSE IF HasPrefix(userAgent, <<"M", "o", "z", "i", "l", "l", "a", "/">>) THEN <<"browser">>
    ELSE <<"bot">>

lineOS(userAgent) ==
    IF MatchString(reOSAndroid, userAgent) THEN <<"Android">>
    ELSE IF MatchString(reOSWindows, userAgent) THEN <<"Windows">>
    ELSE IF MatchString(reOSiOS, userAgent) THEN <<"iOS">>
    ELSE IF MatchString(reOSMac, userAgent) THEN <<"macOS">>
    ELSE IF MatchString(reOSLinux, userAgent) THEN <<"Linux">>
    ELSE EmptyString

\* strconv.Atoi of a string of digits: the digits that count, an error for a
\* value above the largest int (64 bits)
RECURSIVE TrimZeros(_)
TrimZeros(ds) == IF Len(ds) > 1 /\ Head(ds) = "0" THEN TrimZeros(Tail(ds)) ELSE ds

DigitSeq == <<"0", "1", "2", "3", "4", "5", "6", "7", "8", "9">>
DigitValue(c) == (CHOOSE k \in 1..Len(DigitSeq) : DigitSeq[k] = c) - 1

RECURSIVE LessOrEqualDigits(_, _)
LessOrEqualDigits(a, b) ==
    IF a = << >> THEN TRUE
    ELSE IF DigitValue(Head(a)) # DigitValue(Head(b))
    THEN DigitValue(Head(a)) < DigitValue(Head(b))
    ELSE LessOrEqualDigits(Tail(a), Tail(b))

MaxInt == <<"9", "2", "2", "3", "3", "7", "2", "0", "3", "6", "8", "5", "4", "7", "7", "5", "8", "0", "7">>

RECURSIVE DigitsValue(_)
DigitsValue(ds) ==
    IF ds = << >> THEN 0
    ELSE 10 * DigitsValue(SubSeq(ds, 1, Len(ds) - 1)) + DigitValue(ds[Len(ds)])

atoi(d) ==
    IF Len(d) > Len(MaxInt) \/ (Len(d) = Len(MaxInt) /\ ~LessOrEqualDigits(d, MaxInt))
    THEN [err |-> TRUE, n |-> 0]
    ELSE [err |-> FALSE, n |-> DigitsValue(d)]

Atoi(ds) == atoi(TrimZeros(ds))

\* the multiplier for the submatches m of reMultiplier
multiplier(m) ==
    IF Len(m) > 1 THEN (IF Atoi(m[2]).err THEN 1 ELSE Atoi(m[2]).n) ELSE 1

lineMultiplier(userAgent) == multiplier(FindStringSubmatch(reMultiplier, userAgent))

extractFeedID(userAgent) == regexGroup(FindStringSubmatch(reFeedID, userAgent), 1)

uniqOf(ip, userAgent, agent, feedID) ==
    IF userAgent # EmptyString /\ agent # EmptyString /\ feedID # EmptyString
    THEN hashUUID(agent \o <<"/">> \o feedID)
    ELSE IF /\ userAgent # EmptyString /\ agent # EmptyString
            /\ Contains(ToLower(userAgent), <<"s", "u", "b", "s", "c", "r", "i", "b", "e", "r">>)
    THEN hashUUID(agent)
    ELSE hashUUID(ip \o userAgent)

lineUniq(ip, userAgent, agent) == uniqOf(ip, userAgent, agent, extractFeedID(userAgent))

\* url.Parse of a referrer, a sequence of chunks: a scheme, the chunks of the
\* host, a path; a chunk "%zz" is an escape that does not parse
Schemes == {"https://", "http://"}
IsPathChunk(c) == c \in {"/", "/post"}

RECURSIVE HostChunks(_)
HostChunks(rest) ==
    IF rest = << >> \/ IsPathChunk(Head(rest)) THEN << >>
    ELSE <<Head(rest)>> \o HostChunks(Tail(rest))

urlParse(rawURL) ==
    IF \E k \in 1..Len(rawURL) : rawURL[k] = "%zz" THEN [err |-> TRUE, Host |-> EmptyString]
    ELSE IF rawURL # << >> /\ Head(rawURL) \in Schemes
    THEN [err |-> FALSE, Host |-> HostChunks(Tail(rawURL))]
    ELSE [err |-> FALSE, Host |-> EmptyString]

refDomain(u) ==
    IF u.err \/ u.Host = EmptyString THEN EmptyString
    ELSE TrimPrefix(u.Host, <<"www.">>)

lineRefDomain(referrer) ==
    IF referrer = EmptyString THEN EmptyString ELSE refDomain(urlParse(referrer))

\* ------------------------------------------------------------------ sidecar
\* the address the requests of the model come from
ClientIP == <<"10.0.0.1">>

\* json.Marshal of an event: the fields that enqueueEvent takes from the
\* request and the response are those of a request without User-Agent and
\* Referer headers when the event of the model does not carry them
Field(e, name, default) == IF name \in DOMAIN e THEN e[name] ELSE default

Day1 == [date |-> "2024-01-01", time |-> "10:00:00"]

JSONEvent(e) ==
    [timestamp |-> Field(e, "timestamp", Day1),
     path |-> Field(e, "path", <<"/">>),
     ip |-> Field(e, "ip", ClientIP),
     userAgent |-> Field(e, "userAgent", EmptyString),
     referrer |-> Field(e, "referrer", EmptyString),
     contentType |-> Field(e, "contentType", <<"text/html">>),
     setCookie |-> e.setCookie, uniq |-> e.uniq, secondVisit |-> e.secondVisit]

JSONText(value) == [valid |-> TRUE, value |-> value]

\* the body StreamEvents writes: one JSON object per line
NDJSON(events) == [i \in 1..Len(events) |-> JSONText(JSONEvent(events[i]))]

\* one JSON object with the events under the key "events"
Wrapped(events) ==
    <<JSONText([events |-> [i \in 1..Len(events) |-> JSONEvent(events[i])]])>>

\* a body that is no JSON
Garbage == <<[valid |-> FALSE, value |-> [events |-> << >>]]>>

\* dec.Decode(&req) into an ingestRequest: the first JSON value of the body;
\* keys the struct does not have are skipped, a missing key leaves the zero
\* value
Decode(reqBody) ==
    IF reqBody = << >> \/ ~reqBody[1].valid
    THEN [err |-> TRUE, Events |-> << >>]
    ELSE [err |-> FALSE,
          Events |-> IF "events" \in DOMAIN reqBody[1].value
                     THEN reqBody[1].value.events ELSE << >>]

\* the prefixes compared without lowering the content type
contentTypeToTypeExact(contentType) ==
    IF HasPrefix(contentType, <<"application/atom+xml">>) THEN <<"feed">>
    ELSE IF HasPrefix(contentType, <<"application/rss+xml">>) THEN <<"feed">>
    ELSE EmptyString

contentTypeToType(contentType) ==
    LET ct == ToLower(contentType)
    IN IF HasPrefix(ct, <<"application/atom+xml">>) THEN <<"feed">>
       ELSE IF HasPrefix(ct, <<"application/rss+xml">>) THEN <<"feed">>
       ELSE EmptyString

\* ts.Format("2006-01-02")
formatDate(ts) == <<ts.date>>

\* the analyzer.Line the handler builds from an ingestEvent
toLine(e) ==
    [Date |-> formatDate(e.timestamp), Path |-> e.path, IP |-> e.ip,
     UserAgent |-> e.userAgent, Referrer |-> e.referrer,
     Type |-> contentTypeToType(e.contentType), Agent |-> EmptyString,
     OS |-> EmptyString, RefDomain |-> EmptyString, Mult |-> 0,
     SetCookie |-> e.setCookie, Uniq |-> e.uniq, SecondVisit |-> e.secondVisit]

fillAgent(l) ==
    IF l.Agent = EmptyString THEN [l EXCEPT !.Agent = lineAgent(l.UserAgent)] ELSE l

fillType(l) ==
    IF l.Type = EmptyString THEN [l EXCEPT !.Type = lineType(l.Path, l.Agent, l.UserAgent)]
    ELSE l

fillOS(l) == IF l.OS = EmptyString THEN [l EXCEPT !.OS = lineOS(l.UserAgent)] ELSE l

fillMult(l) == IF l.Mult = 0 THEN [l EXCEPT !.Mult = lineMultiplier(l.UserAgent)] ELSE l

fillUniq(l) ==
    IF l.Uniq = EmptyString THEN [l EXCEPT !.Uniq = lineUniq(l.IP, l.UserAgent, l.Agent)]
    ELSE l

fillRefDomain(l) ==
    IF l.RefDomain = EmptyString THEN [l EXCEPT !.RefDomain = lineRefDomain(l.Referrer)]
    ELSE l

\* the uniq computed on every call, from the line as it is before the agent
\* is filled
AnalyzeUniqFirst(line) ==
    fillRefDomain(fillMult(fillOS(fillType(fillAgent(
        [line EXCEPT !.Uniq = lineUniq(line.IP, line.UserAgent, line.Agent)])))))

\* analyzer.Analyze: every derived field that is empty (Mult: 0) is filled,
\* in the order agent, type, os, mult, uniq, ref_domain
Analyze(line) ==
    fillRefDomain(fillUniq(fillMult(fillOS(fillType(fillAgent(line))))))

Null == [null |-> TRUE, v |-> EmptyString]

UUIDValue(s) == [null |-> FALSE, v |-> s]

\* nullString: NULL for the empty string
nullString(s) == IF s = EmptyString THEN Null ELSE [null |-> FALSE, v |-> s]

\* nullUUID: NULL for the empty string
nullUUID(s) == IF s = EmptyString THEN Null ELSE [null |-> FALSE, v |-> s]

\* INSERT INTO stats, the columns of the model
StatsRow(line) ==
    [date |-> nullString(line.Date), type |-> nullString(line.Type),
     agent |-> nullString(line.Agent), os |-> nullString(line.OS),
     refDomain |-> nullString(line.RefDomain), mult |-> line.Mult,
     setCookie |-> nullUUID(line.SetCookie), uniq |-> nullUUID(line.Uniq)]

UpdateUniqEverywhere(rows, u) == [i \in 1..Len(rows) |-> [rows[i] EXCEPT !.uniq = UUIDValue(u)]]

\* UPDATE stats SET uniq = ? WHERE set_cookie = ?, both parameters u
UpdateUniq(rows, u) ==
    [i \in 1..Len(rows) |->
        IF ~rows[i].setCookie.null /\ rows[i].setCookie.v = u
        THEN [rows[i] EXCEPT !.uniq = UUIDValue(u)]
        ELSE rows[i]]

\* the loop of Store.Insert inside the transaction; ok is the number of
\* statements that succeed before one fails
RECURSIVE execLines(_, _, _)
\* one turn of the loop, for a line that Analyze has filled
execLine(tx, line, rest, ok) ==
    IF ok = 0 THEN [err |-> TRUE, tx |-> tx, ok |-> 0]
    ELSE IF line.SecondVisit /\ line.Uniq # EmptyString
    THEN IF ok = 1 THEN [err |-> TRUE, tx |-> Append(tx, StatsRow(line)), ok |-> 0]
         ELSE execLines(UpdateUniq(Append(tx, StatsRow(line)), line.Uniq), rest, ok - 2)
    ELSE execLines(Append(tx, StatsRow(line)), rest, ok - 1)

execLines(tx, lines, ok) ==
    IF lines = << >> THEN [err |-> FALSE, tx |-> tx, ok |-> ok]
    ELSE execLine(tx, Analyze(Head(lines)), Tail(lines), ok)

RollbackNothing(before, tx) == tx

\* tx.Rollback: the table as it was when the transaction began
Rollback(before, tx) == before

\* Store.Insert: the error it returns and the stats table it leaves; an error
\* of BeginTx or PrepareContext leaves what a failing first statement leaves
committed(rows, done) ==
    IF done.err \/ done.ok = 0
    THEN [err |-> TRUE, rows |-> Rollback(rows, done.tx)]
    ELSE [err |-> FALSE, rows |-> done.tx]

Insert(rows, lines, ok) == committed(rows, execLines(rows, lines, ok))

\* the /ingest handler for a POST: the status it answers and the stats table
\* it leaves
answered(lines, stored) ==
    IF stored.err
    THEN [status |-> StatusInternalServerError, rows |-> stored.rows, lines |-> lines]
    ELSE [status |-> StatusAccepted, rows |-> stored.rows, lines |-> lines]

ingest(rows, reqBody, ok) ==
    LET req_ == Decode(reqBody)
        lines == [i \in 1..Len(req_.Events) |-> toLine(req_.Events[i])]
    IN IF req_.err THEN [status |-> StatusBadRequest, rows |-> rows, lines |-> << >>]
       ELSE answered(lines, Insert(rows, lines, ok))

\* the statements Store.Insert executes for n lines at most, and the commit:
\* with so many succeeding, nothing fails
Statements(n) == 2 * n + 1

NoCall ==
    [format |-> "none", sent |-> << >>, lines |-> << >>, before |-> << >>,
     status |-> 0]

NoStream == [transport |-> "none", writeErr |-> FALSE, status |-> 0, err |-> FALSE]

\* the table and the record of the call after /ingest has answered
Posted(events, format, answer) ==
    /\ stats' = answer.rows
    /\ lastCall' = [format |-> format, sent |-> events, lines |-> answer.lines,
                    before |-> stats, status |-> answer.status]

\* a client posts a body to /ingest
IngestPost(events, format, ok) ==
    /\ Len(stats) + Len(events) <= MaxRows
    /\ LET reqBody == CASE format = "ndjson" -> NDJSON(events)
                        [] format = "wrapped" -> Wrapped(events)
                        [] OTHER -> Garbage
       IN Posted(events, format, ingest(stats, reqBody, ok))
    /\ UNCHANGED <<lifeVars, dashboardVars, analyzerVars, lastStream, queueVars, taskVars, respVars, workerVars,
                   histVars, now>>

StreamEventsErrorAny2xx(transportErr, writeErr, status) ==
    transportErr \/ writeErr \/ status < 200 \/ status > 299

\* StreamEvents returns an error: client.Do failed, the writer of the body
\* failed, or the status is not 202
StreamEventsError(transportErr, writeErr, status) ==
    transportErr \/ writeErr \/ status # StatusAccepted

\* flush: StreamEvents posts the batch as NDJSON. transport: the request does
\* not arrive ("refused"), the response does not ("lost"), or both do; other:
\* the status of a server that answers in the sidecar's place, 0 for none
Streamed(events, transport, writeErr, other, answer) ==
    LET arrives == transport # "refused" /\ other = 0
        status == IF transport # "ok" THEN 0
                  ELSE IF other # 0 THEN other ELSE answer.status
        err == StreamEventsError(transport # "ok", writeErr, status)
    IN /\ stats' = IF arrives THEN answer.rows ELSE stats
       /\ lastCall' = IF arrives
                      THEN [format |-> "ndjson", sent |-> events,
                            lines |-> answer.lines, before |-> stats,
                            status |-> answer.status]
                      ELSE lastCall
       /\ lastStream' = [transport |-> transport, writeErr |-> writeErr,
                         status |-> status, err |-> err]
       /\ IF err
          THEN /\ backoff' = NextBackoff(backoff)
               /\ nextAttempt' = now + NextBackoff(backoff)
               /\ failedBatch' = batch
               /\ failures' = failures + 1
               /\ failedAt' = Append(failedAt, now)
               /\ batch' = << >>
               /\ wpc' = "select"
               /\ streamed' = streamed
          ELSE /\ streamed' = streamed \cup BatchIds(batch)
               /\ wpc' = "delete"
               /\ UNCHANGED <<backoff, nextAttempt, failedBatch, failures, failedAt, batch>>

StreamEvents(ok, transport, writeErr, other) ==
    /\ wpc = "stream"
    /\ LET events == [i \in 1..Len(batch) |-> batch[i].Event]
       IN Streamed(events, transport, writeErr, other, ingest(stats, NDJSON(events), ok))
    /\ UNCHANGED <<lifeVars, dashboardVars, analyzerVars, respVars, affected, queueVars, taskVars, deletedUpTo,
                   crashedBatch, restarts, now>>

\* ------------------------------------------------------------ the dashboard
\* the calendar of the model, in the order of the days
Days == <<"2023-12-31", "2024-01-01", "2024-01-02">>

\* time.Parse("2006-01-02", s) returns no error
IsDate(s) == Len(s) = 1 /\ \E i \in 1..Len(Days) : Days[i] = s[1]

\* the day of a date, for the comparisons of dates
DayOf(s) == CHOOSE i \in 1..Len(Days) : Days[i] = s[1]

\* url.Values.Get
Get(params, key) == IF key \in DOMAIN params THEN params[key] ELSE EmptyString

allowedFilters == {"host", "path", "query", "ref_domain", "agent", "type", "os"}

extractFilters(params) ==
    [key \in {k \in DOMAIN params : k \notin {"from", "to"} /\ k \in allowedFilters} |->
        params[key]]

\* the condition "date >= ? AND date <= ?" and "key = ?" of every filter, with
\* its arguments
buildWhere(fromStr, toStr, filters) ==
    [from |-> fromStr, to |-> toStr, filters |-> filters]

\* the column of the stats table that a filter names
Column(row, key) ==
    CASE key = "agent" -> row.agent
      [] key = "type" -> row.type
      [] key = "os" -> row.os
      [] key = "ref_domain" -> row.refDomain
      [] OTHER -> Null

\* the WHERE clause on one row: a comparison with NULL is not true
Satisfies(row, where) ==
    /\ ~row.date.null
    /\ DayOf(where.from) <= DayOf(row.date.v)
    /\ DayOf(row.date.v) <= DayOf(where.to)
    /\ \A key \in DOMAIN where.filters :
           /\ ~Column(row, key).null
           /\ Column(row, key).v = where.filters[key]

RECURSIVE Sum(_, _)
Sum(f, S) ==
    IF S = {} THEN 0
    ELSE LET x == CHOOSE y \in S : TRUE IN f[x] + Sum(f, S \ {x})

MaxOf(S) == CHOOSE m \in S : \A n \in S : n <= m

\* SELECT type, date, SUM(mult) FROM stats WHERE ... GROUP BY type, date
visitsByTypeDateSumAll(db, where, queryErr) ==
    LET rows == {i \in 1..Len(db) : Satisfies(db[i], where)}
        keys == {<<db[i].type, db[i].date>> : i \in rows}
        cnt == [k \in keys |->
                   Sum([i \in rows |-> db[i].mult],
                       {i \in rows : <<db[i].type, db[i].date>> = k})]
    IN IF queryErr THEN << >>
       ELSE [k \in {<<key[1].v, key[2].v>> : key \in {q \in keys : ~q[1].null}} |->
                cnt[<<nullString(k[1]), nullString(k[2])>>]]

\* visitsByTypeDate: subq has one row for every (type, date, uniq) among the
\* rows that satisfy the WHERE clause, with the largest mult of the group; the
\* result has, for every (type, date) of subq with a type, the sum of the mult
\* of its rows; an empty map when the query fails
visitsByTypeDate(db, where, queryErr) ==
    LET rows == {i \in 1..Len(db) : Satisfies(db[i], where)}
        groups == {<<db[i].type, db[i].date, db[i].uniq>> : i \in rows}
        subq == [g \in groups |->
                    MaxOf({db[i].mult :
                              i \in {j \in rows :
                                        <<db[j].type, db[j].date, db[j].uniq>> = g}})]
        keys == {<<g[1], g[2]>> : g \in groups}
        cnt == [k \in keys |-> Sum(subq, {g \in groups : <<g[1], g[2]>> = k})]
    IN IF queryErr THEN << >>
       ELSE [k \in {<<key[1].v, key[2].v>> : key \in {q \in keys : ~q[1].null}} |->
                cnt[<<nullString(k[1]), nullString(k[2])>>]]

\* no request to the dashboard yet
NoPage ==
    [status |-> 0, where |-> buildWhere(EmptyString, EmptyString, << >>),
     queryErr |-> FALSE, visits |-> << >>]

\* redirectToYear
Redirected ==
    [status |-> 302, where |-> buildWhere(EmptyString, EmptyString, << >>),
     queryErr |-> FALSE, visits |-> << >>]

\* the page: the timelines are drawn from the result of visitsByTypeDate
Page(where, queryErr) ==
    [status |-> StatusOK, where |-> where, queryErr |-> queryErr,
     visits |-> visitsByTypeDate(stats, where, queryErr)]

\* dashboard.Render for the query parameters params; queryErr: the queries
\* of the page fail
Render(params, queryErr) ==
    /\ dash' = IF \/ Get(params, "from") = EmptyString
                  \/ Get(params, "to") = EmptyString
                  \/ ~IsDate(Get(params, "from"))
                  \/ ~IsDate(Get(params, "to"))
               THEN Redirected
               ELSE Page(buildWhere(Get(params, "from"), Get(params, "to"),
                                    extractFilters(params)), queryErr)
    /\ UNCHANGED <<lifeVars, analyzerVars, sidecarVars, queueVars, taskVars, respVars, workerVars,
                   histVars, now>>

\* ------------------------------------------------------------ specification
PriorEvent == [setCookie |-> <<"a">>, uniq |-> EmptyString, secondVisit |-> FALSE]

\* the events tables a buffer file can hold when it is opened
PriorTables ==
    UNION {{{[id |-> i, ok |-> f[i], ev |-> PriorEvent] : i \in 1..n} :
            f \in [1..n -> BOOLEAN]} : n \in 0..MaxPrior}

\* an event of a request without headers
NoInput == ZeroEvent

\* the state New leaves: newDiskQueue on a buffer file holding prior, with
\* buffer_max_events maxEv, and active the request tasks that will arrive;
\* the sidecar has an empty stats table and has served no page
OpenWith(prior, maxEv, active, e) ==
    /\ stop = FALSE
    /\ ctxDone = FALSE
    /\ closed = FALSE
    /\ dash = NoPage
    /\ inputEvent = e
    /\ analyzed = toLine(JSONEvent(e))
    /\ passes = 0
    /\ table = prior
    /\ seq = MaxId(prior)
    /\ count = CountRows(prior)
    /\ notify = 0
    /\ maxEvents = maxEv
    /\ connHeld = FALSE
    /\ pc = [r \in Tasks |-> IF r \in active THEN "idle" ELSE "absent"]
    /\ req = [r \in Tasks |-> [path |-> EmptyString, cookie |-> NoCookie,
                             auth |-> EmptyString]]
    /\ cookieState = [r \in Tasks |-> ZeroCookieState]
    /\ headers = [r \in Tasks |-> << >>]
    /\ rec = [r \in Tasks |-> [status |-> StatusOK, contentType |-> EmptyString]]
    /\ evt = [r \in Tasks |-> ZeroEvent]
    /\ wire = [r \in Tasks |-> << >>]
    /\ body = [r \in Tasks |-> EmptyString]
    /\ forwarded = [r \in Tasks |-> 0]
    /\ stats = << >>
    /\ lastCall = NoCall
    /\ lastStream = NoStream
    /\ wpc = "select"
    /\ batch = << >>
    /\ affected = 0
    /\ backoff = 0
    /\ nextAttempt = ZeroTime
    /\ now = 0
    /\ streamed = {}
    /\ deletedUpTo = 0
    /\ failedBatch = << >>
    /\ crashedBatch = << >>
    /\ failures = 0
    /\ failedAt = << >>
    /\ restarts = 0

Open(prior, maxEv, active) == OpenWith(prior, maxEv, active, NoInput)

\* a fresh buffer file, unbounded or bounded; Restart reopens it with rows
Init ==
    \E maxEv \in {0, MaxEvents} : Open({}, maxEv, 1..ConcurrentTasks)

\* a first visit answered with a page; tasks are numbered in the order in which
\* their requests arrive
Request(r) ==
    \/ /\ \A earlier \in 1..(r - 1) : pc[earlier] # "idle"
       /\ ServeHTTP(r, <<"/">>, NoCookie, <<"a">>)
    \/ Handler(r, StatusOK, <<"text/html">>)

Enqueue(r) ==
    \/ EnqueueWait(r)
    \/ EnqueueReserve(r)
    \/ EnqueueInsert(r)
    \/ EnqueueInsertFail(r)
    \/ EnqueueNotify(r)

Worker ==
    \/ WorkerTick
    \/ WorkerNotify
    \/ FetchError
    \/ FetchEmpty
    \/ FetchBatch
    \/ StreamOK
    \/ StreamError
    \/ DeleteError
    \/ DeleteUpTo
    \/ DeleteAccount

Next ==
    \/ \E r \in Tasks : Request(r) \/ Enqueue(r)
    \/ Worker
    \/ Restart
    \/ AdvanceTime(MaxTicks)

Spec == Init /\ [][Next]_vars

\* ------------------------------------------- the backpressure scenario (S5)
\* a bounded queue on a fresh buffer file, every task with a loggable request,
\* a sidecar that answers 202 and a disk without errors
FairInit == Open({}, ScenarioMaxEvents, Tasks)

FairEnqueue(r) ==
    \/ EnqueueWait(r)
    \/ EnqueueReserve(r)
    \/ EnqueueInsert(r)
    \/ EnqueueNotify(r)

FairWorker ==
    \/ WorkerTick
    \/ WorkerNotify
    \/ FetchEmpty
    \/ FetchBatch
    \/ StreamOK
    \/ DeleteUpTo
    \/ DeleteAccount

FairNext ==
    \/ \E r \in Tasks : Request(r) \/ FairEnqueue(r)
    \/ FairWorker

\* the ticker keeps waking the worker and every call of flush returns; every
\* request task keeps running
FairSpec ==
    /\ FairInit
    /\ [][FairNext]_vars
    /\ WF_vars(FairWorker)
    /\ \A r \in Tasks : WF_vars(Request(r) \/ FairEnqueue(r))

\* ------------------------------------------------------ the backoff schedule
\* a buffer file with rows to deliver, one more request, a sidecar that fails
\* or answers 202, and time enough for the backoff to reach its cap
BackoffInit ==
    \E prior \in PriorTables :
        /\ prior # {}
        /\ \A row \in prior : row.ok
        /\ Open(prior, 0, {1})

BackoffEnqueue(r) ==
    \/ EnqueueReserve(r)
    \/ EnqueueInsert(r)
    \/ EnqueueNotify(r)

BackoffWorker ==
    \/ WorkerTick
    \/ WorkerNotify
    \/ FetchEmpty
    \/ FetchBatch
    \/ StreamOK
    \/ StreamError
    \/ DeleteError
    \/ DeleteUpTo
    \/ DeleteAccount

BackoffNext ==
    \/ Request(1)
    \/ BackoffEnqueue(1)
    \/ BackoffWorker
    \/ AdvanceTime(BackoffTicks)

BackoffSpec == BackoffInit /\ [][BackoffNext]_vars

\* --------------------------------------------------------- one HTTP request
Paths == {<<"/">>, <<"/stats">>, <<"/stats", "/favicon.ico">>, <<"/stats", "/x">>}

CookieInputs == {NoCookie} \cup {Cookie(v) : v \in StringsUpTo(MaxCookieLen)}

Statuses == {200, 404}

ContentTypes ==
    {EmptyString, <<"text/html">>, <<"TEXT/HTML", "; charset=utf-8">>,
     <<"application/atom+xml">>, <<"Application/RSS+XML">>, <<"text/plain">>}

AuthHeaders ==
    {EmptyString, <<"Bearer ", "secret">>, <<"Bearer ", "wrong">>, <<"secret">>,
     <<"Bearer ", "secret", "x">>, <<"bearer ", "secret">>}

\* 0: the sidecar cannot be reached
Upstreams == {0, 200, 204}

HttpInit == Open({}, 0, {1})

HttpRequest(r) ==
    \/ \E path \in Paths, cookie \in CookieInputs, userID \in UUIDs :
           ServeHTTP(r, path, cookie, userID)
    \/ \E path \in Paths, auth \in AuthHeaders, upstream \in Upstreams :
           ServeDashboard(r, path, auth, upstream)
    \/ \E status \in Statuses, contentType \in ContentTypes :
           Handler(r, status, contentType)

HttpNext ==
    \/ HttpRequest(1)
    \/ BackoffEnqueue(1)
    \/ FairWorker

HttpSpec == HttpInit /\ [][HttpNext]_vars

\* ------------------------------------------------ a damaged buffer file
CorruptInit ==
    \E prior \in PriorTables, maxEv \in {0, MaxEvents} : Open(prior, maxEv, {1})

CorruptNext ==
    \/ Request(1)
    \/ Enqueue(1)
    \/ Worker
    \/ FetchUndecodable
    \/ AdvanceTime(MaxTicks)

CorruptSpec == CorruptInit /\ [][CorruptNext]_vars

\* ------------------------------------------------------- the sidecar alone
\* the events clients send: first visits of two visitors, the confirmation of
\* the first, and a second visit without an id
EventInputs ==
    {[setCookie |-> <<"a">>, uniq |-> EmptyString, secondVisit |-> FALSE],
     [setCookie |-> <<"b">>, uniq |-> EmptyString, secondVisit |-> FALSE],
     [setCookie |-> EmptyString, uniq |-> <<"a">>, secondVisit |-> TRUE],
     [setCookie |-> EmptyString, uniq |-> EmptyString, secondVisit |-> TRUE]}

Batches == UNION {[1..n -> EventInputs] : n \in 0..BatchSize}

StoreInit == Open({}, 0, {})

StoreNext ==
    \/ \E events \in Batches, format \in {"ndjson", "wrapped"} :
           \E ok \in 0..Statements(Len(events)) : IngestPost(events, format, ok)
    \/ IngestPost(<< >>, "garbage", Statements(0))

StoreSpec == StoreInit /\ [][StoreNext]_vars

\* --------------------------------------------- the middleware with a sidecar
Transports == {"ok", "refused", "lost"}

OtherServers == {0, 200, 204, 500}

PipelineInit == Open({}, 0, 1..ConcurrentTasks)

PipelineWorker ==
    \/ WorkerTick
    \/ WorkerNotify
    \/ FetchEmpty
    \/ FetchBatch
    \/ \E transport \in Transports, writeErr \in BOOLEAN, other \in OtherServers :
           \E ok \in IF transport = "refused" \/ other # 0
                      THEN {Statements(Len(batch))}
                      ELSE 0..Statements(Len(batch)) :
               StreamEvents(ok, transport, writeErr, other)
    \/ DeleteUpTo
    \/ DeleteAccount

PipelineNext ==
    \/ \E r \in Tasks : Request(r) \/ BackoffEnqueue(r)
    \/ PipelineWorker
    \/ AdvanceTime(MaxTicks)

PipelineSpec == PipelineInit /\ [][PipelineNext]_vars

\* the analyzer: user agents, addresses, content types, referrers and cookie
\* states of the events /ingest receives
UAFeedbin == <<"F", "e", "e", "d", "b", "i", "n", " ", "f", "e", "e", "d", "-", "i", "d", ":", "1", "3", "7", "3", "7", "1", "1", " ", "-", " ", "1", "9", "2", " ", "s", "u", "b", "s", "c", "r", "i", "b", "e", "r", "s">>
UANewsBlur == <<"N", "e", "w", "s", "B", "l", "u", "r", " ", "F", "e", "e", "d", " ", "F", "e", "t", "c", "h", "e", "r", " ", "-", " ", "5", "4", " ", "s", "u", "b", "s", "c", "r", "i", "b", "e", "r", "s">>
UAReaderNone == <<"R", "e", "a", "d", "e", "r", " ", "-", " ", "0", " ", "s", "u", "b", "s", "c", "r", "i", "b", "e", "r", "s">>
UAReaderSome == <<"R", "e", "a", "d", "e", "r", " ", "-", " ", "1", "2", " ", "s", "u", "b", "s", "c", "r", "i", "b", "e", "r", "s">>
UAReaderZeros == <<"R", "e", "a", "d", "e", "r", " ", "-", " ", "0", "0", "7", " ", "s", "u", "b", "s", "c", "r", "i", "b", "e", "r", "s">>
UAReaderMany == <<"R", "e", "a", "d", "e", "r", " ", "-", " ", "9", "9", "9", "9", "9", "9", "9", "9", "9", "9", "9", "9", "9", "9", "9", "9", "9", "9", "9", "9", " ", "s", "u", "b", "s", "c", "r", "i", "b", "e", "r", "s">>
UAFeedIDOnly == <<"(", "f", "e", "e", "d", "-", "i", "d", ":", "1", "2", ")">>
UASubscribersOnly == <<"(", "7", " ", "s", "u", "b", "s", "c", "r", "i", "b", "e", "r", "s", ")">>
UAFeedly == <<"F", "e", "e", "d", "l", "y", " ", "f", "e", "e", "d", "-", "i", "d", "=", "7">>
UARSSReader == <<"M", "y", " ", "R", "S", "S", " ", "R", "e", "a", "d", "e", "r">>
UATinyRSS == <<"T", "i", "n", "y", " ", "T", "i", "n", "y", " ", "R", "S", "S", "/", "2", "1", ".", "0", " ", "(", "h", "t", "t", "p", ":", "/", "/", "t", "t", "-", "r", "s", "s", ".", "o", "r", "g", "/", ")">>
UAChrome == <<"M", "o", "z", "i", "l", "l", "a", "/", "5", ".", "0", " ", "(", "X", "1", "1", ";", " ", "L", "i", "n", "u", "x", " ", "x", "8", "6", "_", "6", "4", ")", " ", "C", "h", "r", "o", "m", "e", "/", "1", "2", "0", ".", "0", " ", "S", "a", "f", "a", "r", "i", "/", "5", "3", "7", ".", "3", "6">>
UAFirefox == <<"M", "o", "z", "i", "l", "l", "a", "/", "5", ".", "0", " ", "(", "S", "c", "a", "n", "n", "e", "r", ";", " ", "r", "v", ":", "1", ".", "0", ")", " ", "G", "e", "c", "k", "o", "/", "2", "0", "1", "0", " ", "F", "i", "r", "e", "f", "o", "x", "/", "1", ".", "0">>
UAGooglebot == <<"M", "o", "z", "i", "l", "l", "a", "/", "5", ".", "0", " ", "(", "c", "o", "m", "p", "a", "t", "i", "b", "l", "e", ";", " ", "G", "o", "o", "g", "l", "e", "b", "o", "t", "/", "2", ".", "1", ";", " ", "+", "h", "t", "t", "p", ":", "/", "/", "g", ".", "c", "o", "/", "b", "o", "t", ")">>
UAMozilla == <<"M", "o", "z", "i", "l", "l", "a", "/", "5", ".", "0", " ", "U", "n", "k", "n", "o", "w", "n">>
UACurl == <<"c", "u", "r", "l", "/", "8", ".", "0">>
UAPlain == <<"P", "o", "d", "c", "a", "s", "t", "s">>

UserAgents ==
    {EmptyString, UAFeedbin, UANewsBlur, UAReaderNone, UAReaderSome, UAReaderZeros,
     UAReaderMany, UAFeedIDOnly, UASubscribersOnly, UAFeedly, UARSSReader, UATinyRSS,
     UAChrome, UAFirefox, UAGooglebot, UAMozilla, UACurl, UAPlain}

OtherIP == <<"10.0.0.2">>

FeedTypes ==
    {<<"application/atom+xml">>, <<"Application/RSS+XML">>,
     <<"application/rss+xml", "; charset=utf-8">>}

Referrers ==
    {<<"https://", "www.", "example.com", "/post">>, <<"https://", "example.com">>,
     <<"/post">>, <<"https://", "%zz">>}

KnownVisitor == [setCookie |-> EmptyString, uniq |-> <<"b">>, secondVisit |-> FALSE]

ingestEventOf(ua, ip, contentType, referrer, visitor) ==
    [userAgent |-> ua, ip |-> ip, contentType |-> contentType, referrer |-> referrer,
     setCookie |-> visitor.setCookie, uniq |-> visitor.uniq,
     secondVisit |-> visitor.secondVisit]

AnalyzerEvents ==
    {ingestEventOf(ua, ip, <<"text/html">>, EmptyString, PriorEvent) :
        ua \in UserAgents, ip \in {ClientIP}}
    \cup {ingestEventOf(ua, OtherIP, <<"text/html">>, EmptyString, PriorEvent) :
            ua \in {UAFeedbin, UAReaderSome, UAFeedIDOnly, UASubscribersOnly, UAChrome}}
    \cup {ingestEventOf(ua, ClientIP, ct, EmptyString, PriorEvent) :
            ua \in {EmptyString, UAChrome, UACurl, UAFeedbin}, ct \in FeedTypes}
    \cup {ingestEventOf(ua, ClientIP, <<"text/html">>, EmptyString, KnownVisitor) :
            ua \in {UAFeedbin, UAChrome}}
    \cup {ingestEventOf(UAChrome, ClientIP, <<"text/html">>, ref, PriorEvent) :
            ref \in Referrers}

AnalyzerInit == \E e \in AnalyzerEvents : OpenWith({}, 0, {}, e)

\* a caller applies Analyze to the line
AnalyzePass ==
    /\ passes < MaxPasses
    /\ analyzed' = Analyze(analyzed)
    /\ passes' = passes + 1
    /\ UNCHANGED <<lifeVars, dashboardVars, inputEvent, sidecarVars, queueVars, taskVars, respVars, workerVars,
                   histVars, now>>

\* the event arrives at /ingest in a body of one event
AnalyzerIngest ==
    /\ stats = << >>
    /\ IngestPost(<<inputEvent>>, "wrapped", Statements(1))

AnalyzerNext ==
    \/ AnalyzePass
    \/ AnalyzerIngest

AnalyzerSpec == AnalyzerInit /\ [][AnalyzerNext]_vars

\* ---------------------------------------------- the sidecar and its dashboard
Day2 == [date |-> "2024-01-02", time |-> "09:30:00"]

Visitor(u) == [setCookie |-> EmptyString, uniq |-> u, secondVisit |-> FALSE]

seedEvent(ua, contentType, u, day) ==
    [timestamp |-> day] @@ ingestEventOf(ua, ClientIP, contentType, EmptyString, Visitor(u))

\* hits of browsers, feed readers (12 and 54 subscribers) and a bot, by the
\* visitors a and b, on two days
SeedEvents ==
    {seedEvent(UAChrome, <<"text/html">>, <<"a">>, Day1),
     seedEvent(UAChrome, <<"text/html">>, <<"b">>, Day1),
     seedEvent(UAChrome, <<"text/html">>, <<"a">>, Day2),
     seedEvent(UAReaderSome, <<"application/atom+xml">>, <<"a">>, Day1),
     seedEvent(UANewsBlur, <<"application/atom+xml">>, <<"a">>, Day1),
     seedEvent(UANewsBlur, <<"application/atom+xml">>, <<"b">>, Day1),
     seedEvent(UAReaderSome, <<"text/html">>, <<"a">>, Day1)}

Range(from, to) == [from |-> <<from>>, to |-> <<to>>]

\* the query strings of the requests to the dashboard
Queries ==
    {Range("2024-01-01", "2024-01-02"), Range("2024-01-01", "2024-01-01"),
     Range("2024-01-02", "2024-01-01"), Range("2023-12-31", "2024-01-02"),
     [type |-> <<"feed">>] @@ Range("2024-01-01", "2024-01-02"),
     [agent |-> <<"R", "e", "a", "d", "e", "r">>] @@ Range("2024-01-01", "2024-01-02"),
     [uniq |-> <<"a">>] @@ Range("2024-01-01", "2024-01-02"),
     [to |-> <<"2024-01-02">>], Range("yesterday", "2024-01-02")}

DashboardInit == Open({}, 0, {})

\* rows are stored one event a request, until the dashboard is opened
Seed ==
    /\ dash = NoPage
    /\ \E e \in SeedEvents : IngestPost(<<e>>, "wrapped", Statements(1))

\* one request to the dashboard, on the rows stored so far
View ==
    /\ dash = NoPage
    /\ \E params \in Queries, queryErr \in BOOLEAN : Render(params, queryErr)

DashboardNext ==
    \/ Seed
    \/ View

DashboardSpec == DashboardInit /\ [][DashboardNext]_vars

\* ------------------------------------------------- a sidecar that recovers
\* a buffer file with rows to deliver, requests that arrive while the worker
\* runs, and a sidecar that is down for some time and answers 202 from then on
DrainInit ==
    \E prior \in PriorTables :
        /\ \A row \in prior : row.ok
        /\ Open(prior, 0, 1..ConcurrentTasks)

\* the sidecar is still down: a failure now ends its backoff within the time
\* the specification covers
SidecarDown == now + NextBackoff(backoff) <= DrainTicks * InitialBackoff

DrainWorker ==
    \/ WorkerTick
    \/ WorkerNotify
    \/ FetchEmpty
    \/ FetchBatch
    \/ StreamOK
    \/ SidecarDown /\ StreamError
    \/ DeleteUpTo
    \/ DeleteAccount

DrainNext ==
    \/ \E r \in Tasks : Request(r) \/ BackoffEnqueue(r)
    \/ DrainWorker
    \/ AdvanceTime(DrainTicks)

\* the ticker keeps firing, every call the worker makes returns, and time
\* passes; nothing is assumed of the request tasks
DrainSpec ==
    /\ DrainInit
    /\ [][DrainNext]_vars
    /\ WF_vars(DrainWorker)
    /\ WF_vars(AdvanceTime(DrainTicks))

\* ----------------------------------------------------------------- shutdown
\* a buffer file with decodable rows, unbounded or bounded, requests that
\* arrive before and after Close and the cancellation of the context, a
\* sidecar that answers 202, and a disk that fails no statement of an open
\* handle
ShutdownInit ==
    \E prior \in PriorTables, maxEv \in {0, MaxEvents} :
        /\ \A row \in prior : row.ok
        /\ Open(prior, maxEv, 1..ConcurrentTasks)

ShutdownEnqueue(r) ==
    \/ EnqueueWait(r)
    \/ EnqueueReserve(r)
    \/ EnqueueInsert(r)
    \/ closed /\ EnqueueInsertFail(r)
    \/ EnqueueNotify(r)

ShutdownWorker ==
    \/ WorkerTick
    \/ WorkerNotify
    \/ closed /\ FetchError
    \/ FetchEmpty
    \/ FetchBatch
    \/ StreamOK
    \/ closed /\ DeleteError
    \/ DeleteUpTo
    \/ DeleteAccount

ShutdownNext ==
    \/ \E r \in Tasks : Request(r) \/ ShutdownEnqueue(r)
    \/ ShutdownWorker
    \/ WorkerStop
    \/ WorkerDone
    \/ Close
    \/ Cancel
    \/ AdvanceTime(MaxTicks)

\* every call the worker and the request tasks make returns, time passes, and
\* a select that finds the stop channel closed or the context done again and
\* again takes that case in the end
ShutdownSpec ==
    /\ ShutdownInit
    /\ [][ShutdownNext]_vars
    /\ WF_vars(ShutdownWorker)
    /\ SF_vars(WorkerStop \/ WorkerDone)
    /\ WF_vars(AdvanceTime(MaxTicks))
    /\ \A r \in Tasks : WF_vars(Request(r) \/ ShutdownEnqueue(r))

\* ------------------------------------------------- a visitor who comes back
\* the id newUUID returns for the visitor's first request
Minted == <<"a">>

\* the response header of task r, as the client got it, sets the tentative
\* cookie
TentativeCookieSent(r) ==
    \E i \in 1..Len(wire[r]) : wire[r][i].value = <<"?">> \o Minted

ReturnInit == Open({}, 0, {1, 2})

\* the first request carries no cookie; the second is sent when the client
\* has the header of the first response, while the first request may still be
\* in the middleware, and carries the cookie of that header
Visit(r) ==
    \/ /\ r = 1
       /\ ServeHTTP(r, <<"/">>, NoCookie, Minted)
    \/ /\ r = 2
       /\ TentativeCookieSent(1)
       /\ ServeHTTP(r, <<"/">>, Cookie(<<"?">> \o Minted), <<"b">>)
    \/ \E status \in Statuses, contentType \in {<<"text/html">>, <<"text/plain">>} :
           Handler(r, status, contentType)

ReturnNext ==
    \/ \E r \in {1, 2} : Visit(r) \/ BackoffEnqueue(r)
    \/ PipelineWorker
    \/ AdvanceTime(MaxTicks)

ReturnSpec == ReturnInit /\ [][ReturnNext]_vars

\* =================================================================== claims
IsPrefix(a, b) == Len(a) <= Len(b) /\ SubSeq(b, 1, Len(a)) = a

\* C1: every row that has left the events table (rows leave through DeleteUpTo)
\* had its id in a batch for which StreamEvents returned nil, in every
\* interleaving of Enqueue with the flush loop: a row inserted while a flush
\* is in progress is not deleted without having been streamed.
C1_DeletedOnlyAfterStreamed ==
    \A id \in 1..seq : id \in RowIds(table) \/ id \in streamed

\* DeleteUpTo has removed a streamed batch and a row that was inserted during
\* that flush, and has not been streamed, is still in the table
C1_Witness ==
    /\ wpc = "account"
    /\ affected > 0
    /\ \E row \in table : row.id \notin streamed

\* C2: a step in which StreamEvents returns an error leaves the events table
\* as it is, ends the flush without a DeleteUpTo and schedules a backoff; and
\* the next batch that a FetchBatch returns begins with the whole failed batch.
C2_FailedBatchIsRetried ==
    [][/\ (failedBatch = << >> /\ failedBatch' # << >>) =>
              /\ table' = table
              /\ deletedUpTo' = deletedUpTo
              /\ wpc' = "select"
              /\ backoff' > 0
              /\ nextAttempt' = now + backoff'
       /\ (failedBatch # << >> /\ failedBatch' = << >>) =>
              /\ IsPrefix(failedBatch, batch')
              /\ ~Gated(now)]_vars

\* a batch whose StreamEvents failed is fetched again, in a later flush
C2_Witness ==
    /\ wpc = "stream"
    /\ failures > 0
    /\ failedBatch = << >>
    /\ batch # << >>

\* C3: with buffer_max_events = M > 0 on a queue that started with at most M
\* rows, the rows of the events table together with the slots reserved by
\* Enqueue calls that have not inserted yet never exceed M.
C3_AtMostMaxEvents ==
    maxEvents > 0 =>
        CountRows(table) + Cardinality({r \in Tasks : pc[r] = "insert"}) <= maxEvents

\* the bounded queue is full and an Enqueue waits
C3_Witness ==
    /\ maxEvents > 0
    /\ CountRows(table) = maxEvents
    /\ \E r \in Tasks : pc[r] = "wait"

\* C4: an Enqueue that waits on a full bounded queue stops waiting only when a
\* DeleteUpTo that removed rows broadcasts; with a fair worker and a sidecar
\* that answers 202 every waiting Enqueue completes, and in the end every task
\* has enqueued and every event has been streamed.
C4_BackpressureDrains ==
    /\ [][\A r \in Tasks : (pc[r] = "wait" /\ pc'[r] # "wait") =>
              (wpc = "account" /\ affected > 0)]_vars
    /\ \A r \in Tasks : (pc[r] = "wait") ~> (pc[r] = "done")
    /\ <>[](/\ \A r \in Tasks : pc[r] = "done"
            /\ streamed = 1..NumTasks
            /\ table = {})

\* the queue holds max rows and a further Enqueue is blocked
C4_Witness ==
    /\ CountRows(table) = ScenarioMaxEvents
    /\ count = ScenarioMaxEvents
    /\ \E r \in Tasks : pc[r] = "wait"

\* C5: a batch returned by FetchBatch holds no id that is at most the lastID of
\* an earlier successful DeleteUpTo, also after the table has been emptied.
C5_NoIdAtMostDeleted ==
    wpc \in {"stream", "delete"} =>
        \A i \in 1..Len(batch) : batch[i].ID > deletedUpTo

\* a batch fetched after a DeleteUpTo emptied the table
C5_Witness ==
    /\ wpc = "stream"
    /\ deletedUpTo > 0
    /\ batch # << >>
    /\ batch[1].ID = deletedUpTo + 1
    /\ CountRows(table) = Len(batch)

\* C6: when the process stops, the reopened queue starts with count equal to
\* the rows in the table, which the stop leaves as they are; and if it stopped
\* between the success of StreamEvents and DeleteUpTo, the first batch fetched
\* afterwards begins with that batch, in the same order.
C6_RedeliveredAfterRestart ==
    [][/\ restarts' # restarts =>
              /\ table' = table
              /\ count' = Cardinality(table)
       /\ (crashedBatch # << >> /\ crashedBatch' = << >>) =>
              IsPrefix(crashedBatch, batch')]_vars

\* after a restart the worker streams again a batch that was streamed before
C6_Witness ==
    /\ restarts > 0
    /\ wpc = "stream"
    /\ batch # << >>
    /\ BatchIds(batch) \subseteq streamed
    /\ count = CountRows(table)

BackoffSchedule == <<500, 1000, 2000, 4000, 8000, 10000>>

\* C7: after n consecutive failed flushes, counted from the start of the worker
\* or from the last flush whose FetchBatch returned no events, the backoff is
\* 0 for n = 0 and else 500, 1000, 2000, 4000, 8000, 10000, 10000, ... ms, and
\* next_attempt is zero exactly when the backoff is.
C7_BackoffSchedule ==
    /\ backoff = IF failures = 0 THEN 0
                 ELSE BackoffSchedule[Min(failures, Len(BackoffSchedule))]
    /\ (nextAttempt = ZeroTime) <=> (failures = 0)

\* the seventh consecutive failure: the backoff stays at its cap
C7_Witness ==
    /\ failures = 7
    /\ backoff = 10000

\* the request of task r is not for the dashboard and ServeHTTP has dealt with
\* its cookie
Served(r) ==
    /\ pc[r] \in {"handler", "lock", "wait", "insert", "notify", "done"}
    /\ ~isDashboardRequest(req[r].path)

\* enqueueEvent has built the event of task r
EventBuilt(r) ==
    /\ Served(r)
    /\ pc[r] # "handler"
    /\ isLoggable(rec[r].status, rec[r].contentType)

SetCookieHeader(v) == <<[name |-> "stats_id", value |-> v]>>

\* C8: for a request without the tracking cookie the response has one
\* Set-Cookie, with value "?" followed by a UUID U, and the event built for
\* the request has set_cookie = U, uniq empty and second_visit false.
C8_FirstVisit ==
    \A r \in Tasks :
        (Served(r) /\ ~req[r].cookie.present) =>
            \E U \in UUIDs :
                /\ headers[r] = SetCookieHeader(<<"?">> \o U)
                /\ EventBuilt(r) =>
                       evt[r] = [setCookie |-> U, uniq |-> EmptyString,
                                 secondVisit |-> FALSE]

\* a first visit whose event has been enqueued
C8_Witness ==
    \E r \in Tasks :
        /\ pc[r] = "done"
        /\ EventBuilt(r)
        /\ ~req[r].cookie.present
        /\ \E row \in table : row.ev = evt[r]

\* C9: for a request whose cookie value is "?" followed by U the response has
\* one Set-Cookie, with value U, and the event built for the request has
\* set_cookie empty, uniq = U and second_visit true.
C9_SecondVisit ==
    \A r \in Tasks :
        LET value == req[r].cookie.value
        IN (Served(r) /\ req[r].cookie.present /\ value # << >> /\ value[1] = "?") =>
               /\ headers[r] = SetCookieHeader(Tail(value))
               /\ EventBuilt(r) =>
                      evt[r] = [setCookie |-> EmptyString, uniq |-> Tail(value),
                                secondVisit |-> TRUE]

\* a second visit with a non-empty U whose event has been enqueued
C9_Witness ==
    \E r \in Tasks :
        /\ pc[r] = "done"
        /\ EventBuilt(r)
        /\ req[r].cookie = Cookie(<<"?", "a">>)
        /\ \E row \in table : row.ev = evt[r]

\* the response of task r and its event are those of a confirmed visitor V
ConfirmedVisitor(r, V) ==
    /\ headers[r] = << >>
    /\ EventBuilt(r) =>
           evt[r] = [setCookie |-> EmptyString, uniq |-> V, secondVisit |-> FALSE]

\* C10 as stated: for every cookie value V that does not begin with "?" there
\* is no Set-Cookie and the event has set_cookie empty, uniq = V,
\* second_visit false.
C10_AnyValue ==
    \A r \in Tasks :
        LET value == req[r].cookie.value
        IN (Served(r) /\ req[r].cookie.present /\ ~(value # << >> /\ value[1] = "?")) =>
               ConfirmedVisitor(r, value)

\* C10 amended: for every non-empty cookie value V that does not begin with
\* "?" there is no Set-Cookie and the event has set_cookie empty, uniq = V,
\* second_visit false.
C10_NonEmptyValue ==
    \A r \in Tasks :
        LET value == req[r].cookie.value
        IN (Served(r) /\ req[r].cookie.present /\ value # << >> /\ value[1] # "?") =>
               ConfirmedVisitor(r, value)

\* a confirmed visitor whose event has been enqueued
C10_Witness ==
    \E r \in Tasks :
        /\ pc[r] = "done"
        /\ EventBuilt(r)
        /\ req[r].cookie = Cookie(<<"a", "?">>)
        /\ \E row \in table : row.ev = evt[r]

\* C11: every event in the queue has exactly one of set_cookie and uniq
\* non-empty, and second_visit only with a non-empty uniq, whatever the value
\* of the request's tracking cookie was.
C11_OneIdentity ==
    \A row \in table :
        /\ (row.ev.setCookie # EmptyString) # (row.ev.uniq # EmptyString)
        /\ row.ev.secondVisit => row.ev.uniq # EmptyString

\* the Set-Cookie that is due for the request of task r
DueSetCookie(r) ==
    IF cookieState[r].needsSet
    THEN <<[name |-> "stats_id", value |-> cookieState[r].value]>>
    ELSE << >>

\* C12: for a request that is not for the dashboard the Set-Cookie that is due
\* is in the header map when the downstream handler is invoked, and so it is
\* in the response header that goes out.
C12_SetCookieBeforeHandler ==
    \A r \in Tasks :
        Served(r) =>
            /\ headers[r] = DueSetCookie(r)
            /\ pc[r] # "handler" => wire[r] = DueSetCookie(r)

\* a first visit whose response header went out with the minted cookie
C12_Witness ==
    \E r \in Tasks :
        /\ Served(r)
        /\ pc[r] = "done"
        /\ ~req[r].cookie.present
        /\ wire[r] = SetCookieHeader(<<"?", "a">>)

LoggableTypes == {"text/html", "application/atom+xml", "application/rss+xml"}

\* the status is 200 and the lower-cased Content-Type begins with a loggable
\* type
LoggableResponse(response) ==
    /\ response.status = 200
    /\ response.contentType # << >>
    /\ ToLower(response.contentType)[1] \in LoggableTypes

\* C13: when the downstream handler has answered, ServeHTTP goes on to Enqueue
\* if the recorded status is 200 and the lower-cased Content-Type begins with
\* text/html, application/atom+xml or application/rss+xml, and else it ends
\* with the queue as it was; and a row enters the events table only from such
\* a request.
C13_EnqueueIffLoggable ==
    [][\A r \in Tasks :
           /\ (pc[r] = "handler" /\ pc'[r] # "handler") =>
                  IF LoggableResponse(rec'[r])
                  THEN pc'[r] = "lock"
                  ELSE pc'[r] = "done" /\ queueVars' = queueVars
           /\ (pc[r] = "insert" /\ pc'[r] = "notify") =>
                  /\ LoggableResponse(rec[r])
                  /\ ~isDashboardRequest(req[r].path)
                  /\ table' = table \cup {[id |-> seq', ok |-> TRUE, ev |-> evt[r]]}
      ]_vars

\* an upper-case Content-Type with parameters: the event is in the queue
C13_Witness ==
    \E r \in Tasks :
        /\ pc[r] = "done"
        /\ rec[r] = [status |-> 200, contentType |-> <<"TEXT/HTML", "; charset=utf-8">>]
        /\ \E row \in table : row.ev = evt[r]

\* C14: with a dashboard token configured, a dashboard request whose
\* Authorization header is not "Bearer " followed by the token is answered 401
\* with the body "Unauthorized", and no request goes to the sidecar.
C14_Unauthorized ==
    \A r \in Tasks :
        (/\ pc[r] = "done"
         /\ isDashboardRequest(req[r].path)
         /\ DashboardToken # << >>
         /\ req[r].auth # <<"Bearer ">> \o DashboardToken) =>
            /\ rec[r].status = 401
            /\ body[r] = <<"Unauthorized">>
            /\ forwarded[r] = 0

\* a bearer token that is not the configured one
C14_Witness ==
    \E r \in Tasks :
        /\ pc[r] = "done"
        /\ isDashboardRequest(req[r].path)
        /\ req[r].auth = <<"Bearer ", "wrong">>
        /\ rec[r].status = 401

\* the rows the last /ingest request added come after the rows before it
Extends(rows, before) == Len(before) <= Len(rows)

\* line k of the last /ingest request is a second visit of U
ConfirmsAt(k, U) ==
    /\ k \in 1..Len(lastCall.lines)
    /\ lastCall.lines[k].SecondVisit
    /\ lastCall.lines[k].Uniq = U

\* C15: when Store.Insert returns an error, at whichever statement of the
\* batch or at the commit, the stats table is what it was before the call.
C15_ErrorLeavesTable ==
    lastCall.status = 500 => stats = lastCall.before

\* a batch of two events, fails on a table that has rows; one of the events
\* confirms a row of the table
C15_Witness ==
    /\ lastCall.status = 500
    /\ Len(lastCall.lines) = 2
    /\ \E i \in 1..Len(lastCall.before) :
           /\ ~lastCall.before[i].setCookie.null
           /\ ConfirmsAt(1, lastCall.before[i].setCookie.v)

\* C16: a first-visit event (set_cookie = U, uniq empty) that Store.Insert
\* commits is a row with set_cookie = U and uniq NULL, and a row with
\* set_cookie = U has uniq NULL until a second visit of U gives it uniq = U.
C16_FirstVisitUniqNull ==
    /\ lastCall.status = 202 =>
           \A k \in 1..Len(lastCall.lines) :
               LET line == lastCall.lines[k]
               IN (/\ line.SetCookie # EmptyString
                   /\ line.Uniq = EmptyString
                   /\ \A j \in (k + 1)..Len(lastCall.lines) : ~ConfirmsAt(j, line.SetCookie)) =>
                      /\ Extends(stats, lastCall.before)
                      /\ Len(lastCall.before) + k <= Len(stats)
                      /\ stats[Len(lastCall.before) + k].setCookie =
                             [null |-> FALSE, v |-> line.SetCookie]
                      /\ stats[Len(lastCall.before) + k].uniq =
                             [null |-> TRUE, v |-> EmptyString]
    /\ \A i \in 1..Len(stats) :
           ~stats[i].setCookie.null =>
               stats[i].uniq.null \/ stats[i].uniq.v = stats[i].setCookie.v

\* C17: after Store.Insert has committed a batch, for every second-visit
\* event of the batch with uniq = U every row inserted before that event, in
\* an earlier batch or earlier in this one, with set_cookie = U has uniq = U;
\* and a row whose set_cookie is the uniq of no second-visit event of the
\* batch has the uniq it had.
C17_SecondVisitUpdates ==
    lastCall.status = 202 =>
        /\ Len(stats) = Len(lastCall.before) + Len(lastCall.lines)
        /\ \A k \in 1..Len(lastCall.lines), i \in 1..Len(stats) :
               LET U == lastCall.lines[k].Uniq
               IN (/\ U # EmptyString
                   /\ ConfirmsAt(k, U)
                   /\ i < Len(lastCall.before) + k
                   /\ stats[i].setCookie = [null |-> FALSE, v |-> U]) =>
                      stats[i].uniq = [null |-> FALSE, v |-> U]
        /\ \A i \in 1..Len(lastCall.before) :
               /\ stats[i].setCookie = lastCall.before[i].setCookie
               /\ (\A k \in 1..Len(lastCall.lines) :
                       ~(/\ ~stats[i].setCookie.null
                         /\ ConfirmsAt(k, stats[i].setCookie.v))) =>
                      stats[i].uniq = lastCall.before[i].uniq

\* the table held first visits of a and of b; a batch confirmed a
C17_Witness ==
    /\ lastCall.status = 202
    /\ \E k \in 1..Len(lastCall.lines) : ConfirmsAt(k, <<"a">>)
    /\ \E i, j \in 1..Len(lastCall.before) :
           /\ lastCall.before[i].setCookie = [null |-> FALSE, v |-> <<"a">>]
           /\ lastCall.before[i].uniq # [null |-> FALSE, v |-> <<"a">>]
           /\ stats[i].uniq = [null |-> FALSE, v |-> <<"a">>]
           /\ lastCall.before[j].setCookie = [null |-> FALSE, v |-> <<"b">>]

\* C18: when /ingest answers 202 to the n NDJSON lines of StreamEvents, the n
\* events went to Store.Insert in their order and n rows were committed; so
\* the stats table has a row for every event the worker has deleted from the
\* disk queue.
C18_AcceptedBatchStored ==
    /\ (lastCall.format = "ndjson" /\ lastCall.status = 202) =>
           /\ lastCall.lines =
                  [i \in 1..Len(lastCall.sent) |-> toLine(JSONEvent(lastCall.sent[i]))]
           /\ Len(stats) = Len(lastCall.before) + Len(lastCall.sent)
    /\ Len(stats) >= deletedUpTo

\* C19: /ingest answers 400 to a body that does not decode and 500 when
\* Store.Insert fails, with the stats table as it was; and it answers 202
\* only when the events of the body are rows of the table.
C19_StatusTellsStored ==
    /\ lastCall.format = "garbage" => lastCall.status = 400
    /\ lastCall.status \in {400, 500} => stats = lastCall.before
    /\ lastCall.status = 202 => Len(stats) = Len(lastCall.before) + Len(lastCall.sent)

\* C20: StreamEvents returns nil exactly when client.Do and the writer of the
\* body had no error and the status is 202.
C20_NilIffAccepted ==
    lastStream.transport # "none" =>
        (~lastStream.err <=>
             /\ lastStream.transport = "ok"
             /\ ~lastStream.writeErr
             /\ lastStream.status = 202)

\* a batch that StreamEvents returned nil for is about to be deleted
C20_Witness ==
    /\ wpc = "delete"
    /\ lastStream = [transport |-> "ok", writeErr |-> FALSE, status |-> 202,
                     err |-> FALSE]

\* C21: every row that Store.Insert has inserted has mult >= 1, whatever
\* number precedes the word subscriber in the user agent of its event.
C21_MultAtLeastOne ==
    \A i \in 1..Len(stats) : stats[i].mult >= 1

\* the row of line k of the last /ingest request that was answered 202
RowOf(k) == stats[Len(lastCall.before) + k]

\* the value of a column, the empty string for NULL
ValueOf(column) == IF column.null THEN EmptyString ELSE column.v

\* the user agent has feed-id: and an ID at position p
FeedIDAt(ua, p) ==
    /\ HasPrefix(SubSeq(ua, p, Len(ua)), <<"f", "e", "e", "d", "-", "i", "d", ":">>)
    /\ p + 8 <= Len(ua)
    /\ LowerChunk(ua[p + 8]) \in Word

HasFeedID(ua) == \E p \in 1..Len(ua) : FeedIDAt(ua, p)

\* the ID of the first feed-id:ID of the user agent
FeedID(ua) ==
    LET p == CHOOSE q \in 1..Len(ua) :
                 FeedIDAt(ua, q) /\ \A r \in 1..(q - 1) : ~FeedIDAt(ua, r)
        idEnds == {e \in (p + 8)..Len(ua) :
                      \A j \in (p + 8)..e : LowerChunk(ua[j]) \in Word}
    IN SubSeq(ua, p + 8, CHOOSE e \in idEnds : \A f \in idEnds : f <= e)

AdvertisesSubscribers(ua) == Contains(ToLower(ua), <<"s", "u", "b", "s", "c", "r", "i", "b", "e", "r">>)

\* C22: an event that arrives with empty uniq is stored with
\* uniq = hash(agent + "/" + ID) when its user agent contains feed-id:ID, else
\* with hash(agent) when the user agent advertises subscribers, else with
\* hash(ip + user_agent); the first two do not depend on the ip.
C22_UniqRule ==
    lastCall.status = 202 =>
        \A k \in 1..Len(lastCall.lines) :
            LET l == lastCall.lines[k]
                agent == ValueOf(RowOf(k).agent)
            IN l.Uniq = EmptyString =>
                   ValueOf(RowOf(k).uniq) =
                       IF HasFeedID(l.UserAgent)
                       THEN hashUUID(agent \o <<"/">> \o FeedID(l.UserAgent))
                       ELSE IF AdvertisesSubscribers(l.UserAgent) THEN hashUUID(agent)
                       ELSE hashUUID(l.IP \o l.UserAgent)

\* the line that the /ingest handler builds from the input event
Arrived == toLine(JSONEvent(inputEvent))

BotWords ==
    {<<"b", "o", "t">>, <<"c", "r", "a", "w", "l">>, <<"f", "e", "t", "c", "h">>, <<"n", "o", "d", "e">>, <<"r", "u", "b", "y">>, <<"p", "y", "t", "h", "o", "n">>, <<"c", "u", "r", "l">>, <<"o", "k", "h", "t", "t", "p">>,
     <<"s", "p", "i", "d", "e", "r">>, <<"s", "c", "a", "n">>, <<"n", "u", "t", "c", "h">>, <<"m", "a", "s", "t", "o", "d", "o", "n">>, <<"+", "h", "t", "t", "p">>}

\* the bot pattern: one of the words, or rb after any character
LooksLikeBot(ua) ==
    \/ \E w \in BotWords : Contains(ToLower(ua), w)
    \/ \E p \in 2..(Len(ua) - 1) :
           /\ ua[p - 1] # "\n"
           /\ LowerChunk(ua[p]) = "r"
           /\ LowerChunk(ua[p + 1]) = "b"

\* the type that the rules give, the first rule that applies deciding
TypeByRules(agent, ua) ==
    IF Contains(ToLower(ua), <<"r", "s", "s">>) THEN <<"feed">>
    ELSE IF agent \in Browsers THEN <<"browser">>
    ELSE IF LooksLikeBot(ua) THEN <<"bot">>
    ELSE IF HasPrefix(ua, <<"M", "o", "z", "i", "l", "l", "a", "/">>) THEN <<"browser">>
    ELSE <<"bot">>

\* C23: when the type is not pre-seeded, the analyzer decides it by the first
\* rule that applies: rss in the user agent gives feed, an agent of the browser
\* list gives browser, the bot pattern gives bot, a user agent that starts with
\* Mozilla/ gives browser, anything else bot; the type is one of the three.
C23_TypeByFirstRule ==
    (passes >= 1 /\ Arrived.Type = EmptyString) =>
        /\ analyzed.Type = TypeByRules(analyzed.Agent, analyzed.UserAgent)
        /\ analyzed.Type \in {<<"feed">>, <<"bot">>, <<"browser">>}

\* a browser of the list whose user agent also matches the bot pattern has been
\* analyzed: the browser rule decided
C23_Witness ==
    /\ passes >= 1
    /\ Arrived.Type = EmptyString
    /\ analyzed.Agent \in Browsers
    /\ LooksLikeBot(analyzed.UserAgent)
    /\ analyzed.Type = <<"browser">>

\* the content type begins, in any letter case, with one of the feed types
IsFeedContentType(ct) ==
    \E n \in 1..Len(ct) :
        ToLower(SubSeq(ct, 1, n)) \in {<<"application/atom+xml">>, <<"application/rss+xml">>}

\* C24: an event whose contentType begins, in any letter case, with
\* application/atom+xml or application/rss+xml is stored with type feed whatever
\* its user agent is, and the analyzer keeps a type that is already set.
C24_FeedContentType ==
    /\ (passes >= 1 /\ Arrived.Type # EmptyString) => analyzed.Type = Arrived.Type
    /\ lastCall.status = 202 =>
           \A k \in 1..Len(lastCall.sent) :
               IsFeedContentType(JSONEvent(lastCall.sent[k]).contentType) =>
                   RowOf(k).type = [null |-> FALSE, v |-> <<"feed">>]

\* an event with a feed content type in capitals and the user agent of a
\* browser has been stored
C24_Witness ==
    /\ lastCall.status = 202
    /\ Len(lastCall.sent) = 1
    /\ JSONEvent(lastCall.sent[1]).contentType = <<"Application/RSS+XML">>
    /\ lastCall.sent[1].userAgent = UAChrome
    /\ Len(stats) = 1
    /\ RowOf(1).type.v = <<"feed">>

\* C25: Analyze is idempotent: applying Analyze to a line that Analyze returned
\* changes no field of it.
C25_AnalyzeIdempotent ==
    [][(AnalyzePass /\ passes >= 1) => analyzed' = analyzed]_vars

\* Analyze has been applied twice to a line of which the first call filled
\* the agent and the uniq
C25_Witness ==
    /\ passes = 2
    /\ Arrived.Uniq = EmptyString
    /\ analyzed.Agent # EmptyString
    /\ analyzed.Uniq # EmptyString
    /\ HasFeedID(analyzed.UserAgent)

\* the count of the timeline of a type on a date
TimelineCount(type, date) ==
    IF <<type, date>> \in DOMAIN dash.visits THEN dash.visits[<<type, date>>] ELSE 0

\* the stored rows of a type and a date that pass the filter of the page
Hits(type, date) ==
    {i \in 1..Len(stats) :
        /\ Satisfies(stats[i], dash.where)
        /\ stats[i].type = [null |-> FALSE, v |-> type]
        /\ stats[i].date = [null |-> FALSE, v |-> date]}

\* over the distinct uniq of the hits, the largest mult of the uniq, summed
UniqueVisits(type, date) ==
    LET uniqs == {stats[i].uniq : i \in Hits(type, date)}
    IN Sum([u \in uniqs |->
               MaxOf({stats[i].mult : i \in {j \in Hits(type, date) : stats[j].uniq = u}})],
           uniqs)

\* C26: for every (type, date), the count of the dashboard's timeline is the sum,
\* over the distinct uniq among the stored rows of that type and date that pass
\* the filter, of the largest mult of those rows.
C26_TimelineCount ==
    (dash.status = StatusOK /\ ~dash.queryErr) =>
        \A type \in {<<"browser">>, <<"feed">>, <<"bot">>} :
            \A d \in 1..Len(Days) :
                TimelineCount(type, <<Days[d]>>) = UniqueVisits(type, <<Days[d]>>)

\* the page shows a day on which one feed reader came twice, with 12 and with
\* 54 subscribers: the count is 54
C26_Witness ==
    /\ dash.status = StatusOK
    /\ ~dash.queryErr
    /\ \E i, j \in Hits(<<"feed">>, <<"2024-01-01">>) :
           /\ stats[i].uniq = stats[j].uniq
           /\ stats[i].mult = 12
           /\ stats[j].mult = 54
    /\ Cardinality(Hits(<<"feed">>, <<"2024-01-01">>)) = 2
    /\ TimelineCount(<<"feed">>, <<"2024-01-01">>) = 54

\* C27: FetchBatch(limit) returns at most limit entries in strictly ascending
\* id, and they are the oldest entries of the table; an Enqueue insert gives
\* its row an id above every id inserted before, so the order of the ids is
\* the order in which the inserts completed.
C27_OldestFirst ==
    [][/\ (wpc = "fetch" /\ wpc' = "stream") =>
              /\ Len(batch') <= BatchSize
              /\ \A i \in 1..(Len(batch') - 1) : batch'[i].ID < batch'[i + 1].ID
              /\ \A i \in 1..Len(batch') :
                     \E row \in table : row.id = batch'[i].ID /\ row.ev = batch'[i].Event
              /\ \A row \in table :
                     row.id \notin BatchIds(batch') =>
                         \A i \in 1..Len(batch') : batch'[i].ID < row.id
       /\ \A row \in table' \ table :
              /\ \A older \in table : older.id < row.id
              /\ row.id > seq
              /\ row.id > deletedUpTo
              /\ row.id \notin streamed]_vars

\* a batch of BatchSize entries has been fetched from a table that holds more
\* rows, the newest of them inserted by Enqueue
C27_Witness ==
    /\ wpc = "stream"
    /\ Len(batch) = BatchSize
    /\ CountRows(table) > BatchSize
    /\ \E row \in table : row.id > batch[Len(batch)].ID /\ row.ev = evt[1]
    /\ pc[1] \in {"notify", "done"}

\* a step of FetchBatch: it returns, with or without a batch, or never returns
FetchStep == wpc = "fetch" /\ wpc' # "fetch"

\* C28: FetchBatch leaves the events table and the in-memory count unchanged,
\* whatever the queue holds; rows leave the table only through DeleteUpTo.
C28_FetchLeavesTable ==
    [][/\ FetchStep => (table' = table /\ count' = count)
       /\ (\E row \in table : row \notin table') => (wpc = "delete" /\ wpc' = "account")]_vars

\* FetchBatch has met a row that does not decode, and the row is in the table
C28_Witness ==
    /\ wpc = "blocked"
    /\ \E row \in table : ~row.ok
    /\ count = CountRows(table)

\* the rows FetchBatch selects, and whether one of them does not decode
Selected == SelectBatch(table, BatchSize)

MeetsUndecodable == \E i \in 1..Len(Selected) : ~Selected[i].ok

\* the SELECT of FetchBatch fails: flush logs the error and returns
QueryFails == wpc' = "select" /\ table' = table /\ backoff' = backoff

\* C29: when the table holds a row whose payload does not decode, FetchBatch
\* completes, the row is removed from the table, and the decodable rows of the
\* batch are returned in order, although the open result set holds the only
\* connection of the queue's database handle while the row is deleted.
C29_UndecodableSkipped ==
    [][(FetchStep /\ MeetsUndecodable /\ ~QueryFails) =>
           /\ wpc' \in {"stream", "select"}
           /\ \A i \in 1..Len(Selected) : ~Selected[i].ok => Selected[i] \notin table'
           /\ \A row \in table : row.ok => row \in table'
           /\ batch' = Decoded(Decodable(Selected))]_vars

\* the earliest time of the attempt after k failures in a row, from the time
\* of the first: 500, 1500, 3500 ms later
EarliestAfter == <<500, 1500, 3500>>

\* C30: after a failed attempt at time t that set the backoff b, no wake-up of
\* the worker leads to a call of FetchBatch or StreamEvents before t + b; with
\* three failures in a row from time t on, the attempts are no earlier than
\* t, t + 500 ms, t + 1500 ms and t + 3500 ms.
C30_BackoffGate ==
    /\ failedAt # << >> =>
           /\ nextAttempt = failedAt[Len(failedAt)] + backoff
           /\ wpc \in {"fetch", "stream"} => now >= failedAt[Len(failedAt)] + backoff
    /\ \A k \in 1..Min(Len(failedAt), 3) :
           /\ wpc \in {"fetch", "stream"} => now >= failedAt[1] + EarliestAfter[k]
           /\ k < Len(failedAt) => failedAt[k + 1] >= failedAt[1] + EarliestAfter[k]

\* the fourth attempt, 3500 ms after the first of three failures, which did
\* not happen at time 0
C30_Witness ==
    /\ wpc = "stream"
    /\ Len(failedAt) = 3
    /\ failedAt[1] > 0
    /\ now = failedAt[1] + 3500

\* a flush returns: the worker goes back to its select
FlushReturns == wpc # "select" /\ wpc' = "select"

\* C31: with a sidecar that answers 202 from some time on and a worker that is
\* not stopped, under weak fairness every row of the events table is
\* eventually streamed and removed by DeleteUpTo: in the end the table is
\* empty and every id that was given out has been streamed. A flush fetches
\* batches of at most batch_size and returns, short of a failure, only when
\* FetchBatch returns nothing; a row whose notification was consumed during a
\* backoff is drained by a later tick.
C31_QueueDrains ==
    /\ [](Len(batch) <= BatchSize)
    /\ [][FlushReturns =>
              \/ wpc = "fetch" /\ table = {}
              \/ failures' = failures + 1]_vars
    /\ <>[](table = {} /\ streamed = 1..seq)

\* the worker is in backoff after a failed batch of less than batch_size rows;
\* a row inserted after that batch was fetched is in the table, and its
\* notification has been consumed by a wake-up that the gate turned away
C31_Witness ==
    /\ wpc = "select"
    /\ Gated(now)
    /\ notify = 0
    /\ \A r \in Tasks : pc[r] # "notify"
    /\ failedBatch # << >>
    /\ Len(failedBatch) < BatchSize
    /\ \E row \in table : row.id > failedBatch[Len(failedBatch)].ID

\* the stop signal has been given or the context is cancelled
Signalled == stop \/ ctxDone

\* C32: after the stop signal or the cancellation of the context the worker
\* terminates and starts no further flush, and a flush in progress is ended by
\* the cancellation: it does not go on to stream a further batch.
C32_StopEndsFlush ==
    /\ Signalled ~> (wpc = "returned")
    /\ [][Signalled =>
              /\ ~(wpc = "select" /\ wpc' = "fetch")
              /\ ~(wpc = "fetch" /\ wpc' = "stream")]_vars

\* event e is the first visit of U, the confirmation of U
FirstVisitOf(e, U) == e.setCookie = U /\ ~e.secondVisit

SecondVisitOf(e, U) == e.secondVisit /\ e.uniq = U

\* the stats table holds a row of the first visit of U, confirmed, and after
\* it the row of the second visit
AppliedInOrder(U) ==
    \E p, q \in 1..Len(stats) :
        /\ p < q
        /\ stats[p].setCookie = UUIDValue(U)
        /\ stats[p].uniq = UUIDValue(U)
        /\ stats[q].setCookie = Null
        /\ stats[q].uniq = UUIDValue(U)

\* C33: events reach the stats table in the order of their queue ids, within a
\* batch and across batches and retries: when StreamEvents has returned nil
\* for the batch that holds the second visit of U, and the first visit of U
\* has a smaller queue id (earlier in this batch, or in a batch delivered
\* before), the row of the first visit was inserted before the UPDATE of the
\* second visit ran, so the table holds it with uniq = U, before the row of
\* the second visit.
C33_AppliedInQueueOrder ==
    wpc = "delete" =>
        \A j \in 1..Len(batch) :
            (/\ SecondVisitOf(batch[j].Event, Minted)
             /\ \/ \E i \in 1..(j - 1) : FirstVisitOf(batch[i].Event, Minted)
                \/ /\ batch[j].ID = 2
                   /\ 1 \in streamed
                   /\ FirstVisitOf(evt[1], Minted))
            => AppliedInOrder(Minted)

\* the rows of the stats table that name U in set_cookie when the UPDATE of
\* line k of the last /ingest request runs: the rows stored before the request
\* and those of the lines up to k
RowsNaming(k, U) ==
    {i \in 1..Min(Len(stats), Len(lastCall.before) + k) :
         stats[i].setCookie = UUIDValue(U)}

\* C34: processing one confirmation of U changes the uniq of exactly one stored
\* row, the row with set_cookie = U, whatever was delivered before, batches
\* delivered again included: when the UPDATE of a committed confirmation runs,
\* the rows it matches are one row.
C34_ConfirmsOneRow ==
    lastCall.status = StatusAccepted =>
        \A k \in 1..Len(lastCall.lines) :
            (ConfirmsAt(k, Minted) /\ RowsNaming(k, Minted) # {}) =>
                Cardinality(RowsNaming(k, Minted)) = 1

\* the insert of task r's Enqueue fails in this step
InsertFails(r) == pc[r] = "insert" /\ pc'[r] = "done" /\ restarts' = restarts

\* C35: when the insert inside Enqueue fails, the increment of count is taken
\* back, no row is added, no notification is sent, one waiting Enqueue (if
\* there is one) is woken, and the event is dropped with the HTTP response as
\* it was.
C35_InsertFailure ==
    [][\A r \in Tasks :
           InsertFails(r) =>
               /\ count' = count - 1
               /\ table' = table
               /\ seq' = seq
               /\ notify' = notify
               /\ Waiting # {} =>
                      \E w \in Waiting :
                          /\ pc'[w] = "lock"
                          /\ \A o \in Tasks \ {r, w} : pc'[o] = pc[o]
               /\ Waiting = {} => \A o \in Tasks \ {r} : pc'[o] = pc[o]
               /\ wire' = wire
               /\ body' = body
               /\ headers' = headers
               /\ rec' = rec]_vars

\* the only insert so far has failed: its event is dropped, the slot is free
\* again and the Enqueue that waited for it is at the lock
C35_Witness ==
    \E r, w \in Tasks :
        /\ pc[r] = "done"
        /\ EventBuilt(r)
        /\ pc[w] = "lock"
        /\ maxEvents > 0
        /\ count = 0
        /\ seq = 0
        /\ table = {}
        /\ notify = 0
        /\ restarts = 0

\* no Enqueue is between its count increment and its insert, and DeleteUpTo is
\* not between its DELETE and its decrement
Settled ==
    /\ \A r \in Tasks : pc[r] # "insert"
    /\ wpc # "account"

\* a FetchBatch call is stuck at the deletion of a malformed row
DiscardPending == wpc = "blocked"

Enqueued(r) == EventBuilt(r) /\ pc[r] \in {"notify", "done"}

\* C37: for the id U that the middleware minted, an event with second_visit
\* and uniq = U is enqueued only after an event with set_cookie = U has been
\* enqueued, in every interleaving of the client's requests and whatever the
\* status and content type of the response that carried the tentative cookie.
C37_FirstVisitEnqueuedFirst ==
    [][\A r \in Tasks :
           (~Enqueued(r) /\ Enqueued(r)' /\ SecondVisitOf(evt[r], Minted)) =>
               \E first \in Tasks :
                   Enqueued(first) /\ FirstVisitOf(evt[first], Minted)]_vars

InEnqueue(r) == pc[r] \in {"lock", "wait", "insert", "notify"}

\* C39: after Close, or after the worker has returned on the cancellation of
\* the context, every Enqueue call eventually returns: no request task waits
\* for queue capacity for ever.
C39_EnqueueReturns ==
    \A r \in Tasks :
        ((closed \/ wpc = "returned") /\ InEnqueue(r)) ~> (pc[r] = "done")

\* dashboard_path and dashboard_path/favicon.ico
DashboardPaths == {DashboardPath, DashboardPath \o <<"/favicon.ico">>}

\* task r takes up a request for one of the dashboard paths in this step
DashboardArrives(r) ==
    /\ pc[r] = "idle"
    /\ pc'[r] # "idle"
    /\ req'[r].path \in DashboardPaths

\* C40: a request for dashboard_path or dashboard_path/favicon.ico is answered
\* by proxyDashboard alone: the downstream handler is not invoked, no
\* Set-Cookie goes out and no cookie state is formed, and nothing is enqueued,
\* whatever the Authorization header and whether or not the sidecar answers.
C40_DashboardBypasses ==
    [][\A r \in Tasks :
           DashboardArrives(r) =>
               /\ pc'[r] = "done"
               /\ headers'[r] = << >>
               /\ wire'[r] = << >>
               /\ cookieState'[r] = ZeroCookieState
               /\ evt'[r] = ZeroEvent
               /\ UNCHANGED <<table, seq, count, notify>>]_vars

\* the favicon of the dashboard, asked for with the right token while the
\* sidecar cannot be reached
C40_Witness ==
    \E r \in Tasks :
        /\ pc[r] = "done"
        /\ req[r].path = DashboardPath \o <<"/favicon.ico">>
        /\ req[r].auth = <<"Bearer ">> \o DashboardToken
        /\ rec[r].status = StatusBadGateway
        /\ forwarded[r] = 1
        /\ table = {}

====
